---- MODULE Spec2Model ----
(***************************************************************************)
(* KitelyView web client: the object world of the 3D view and the session.  *)
(*                                                                         *)
(*   SceneManager    static/js/three/scene.js   pickable nodes, selection  *)
(*   ObjectManager   static/js/three/object.js  the registry of records    *)
(*   BuildingManager static/js/ui/building.js   the build form (listener)  *)
(*   InventoryManager static/js/ui/inventory.js drop of an inventory item  *)
(*   main script     static/css/style.css:1040 session, status, polling,   *)
(*                   (and static/js/main.js)   push listeners, movement    *)
(*   AvatarManager   static/js/three/scene.js   the avatar and its parts   *)
(*   TerrainManager  static/js/three/scene.js   heights, SimplexNoise      *)
(*                                                                         *)
(* Every handler runs to completion on the single JavaScript thread, so    *)
(* each handler is one action.  Lengths, sizes and transparencies are      *)
(* fixed-point numbers counted in 1/Unit: the size slider moves in steps   *)
(* of 0.1 and the transparency slider in steps of 0.05, so every value the *)
(* form can hold is a whole number of twentieths.                          *)
(***************************************************************************)
EXTENDS Integers, Sequences, FiniteSets, TLC

VARIABLES
    nextObjectId,    \* ObjectManager.nextObjectId
    objects,         \* ObjectManager.objects: the registry, a sequence of records
    heap,            \* the THREE.Mesh objects alive, by object identity
    meshCount,       \* number of THREE.Mesh objects constructed so far (identity)
    smObjects,       \* SceneManager.objects: the pickable nodes, in registration order
    sceneChildren,   \* the meshes attached to SceneManager.scene
    selectedObject,  \* SceneManager.selectedObject (a mesh identity or Null)
    editDisabled,    \* #edit-object .disabled
    deleteDisabled,  \* #delete-object .disabled
    form,            \* the controls of the build form
    systemLog,       \* the children of #system-log, oldest first
    handler,         \* the handler that ran last
    dispatched,      \* the CustomEvents that handler dispatched, in order
    issuedIds,       \* every id handed out by nextObjectId++, in order
    pointer,         \* the picking ray of the last pointer press, NoRay once
                     \* another handler of the object world has run
    kindIn,          \* argument of a direct createObject / getTypeFromItem call
    kindOut,         \* what that call produced
    systemLogDeclared, \* whether the main script binds the identifier systemLog
    chatMessages,    \* the children of #chat-messages, oldest first
    statusIndicator, \* #status-indicator: className and textContent
    startButton,     \* #start-button: disabled and textContent
    loginButton,     \* #login-button: disabled and style.display
    logoutButton,    \* #logout-button: disabled and style.display
    loginStatus,     \* #login-status textContent
    userName,        \* #user-name textContent, without the prefix "Name: "
    userId,          \* #user-id textContent, without the prefix "ID: "
    regionName,      \* #region-name textContent
    regionPosition,  \* #region-position: the three numbers after "Position: "
    avatarMarker,    \* #avatar-marker style.left and style.top
    avatarPosition,  \* avatarManager.avatar.position
    pollIntervals,   \* the interval timers of pollEvents that are active
    timerCount,      \* number of setInterval calls so far (timer identity)
    requests,        \* the fetches whose promise is not settled yet
    ticks,           \* number of timer ticks so far (fetch order)
    serverEvents,    \* the server's event queue: produced, not fetched yet
    produced,        \* number of events the server produced so far
    applied,         \* the events handed to processEvent, in order
    movementLoops,   \* number of frame loops startMovementLoop started
    received,        \* what the handler that ran last was given
    lastTime,        \* lastTime of each startMovementLoop closure, by loop
    movementControls, \* the flags the move-* buttons set and clear
    now,             \* timestamp of the last animation frame, in ms
    frames,          \* number of animation frames so far
    renderPending,   \* SceneManager.animate callbacks waiting for a frame
    rendered,        \* renderer.render calls of the last frame
    rendererSize,    \* width and height the renderer was last given
    appearance,      \* the appearance settings of AvatarManager
    avatar,          \* AvatarManager.avatar (a group identity or Null)
    avatarCount,     \* number of THREE.Group objects createAvatar made
    avatarHeap,      \* those groups, by identity
    sceneAvatars,    \* the avatar groups attached to SceneManager.scene
    simplexCount,    \* number of SimplexNoise instances made so far
    heightCalls,     \* number of vertex heights computed so far
    heightIn,        \* the instance and the inputs of the last height
    heightOut,       \* the last height
    heights          \* for every input so far, the height computed first

sessionVars == <<systemLogDeclared, chatMessages, statusIndicator, startButton,
                 loginButton, logoutButton, loginStatus, userName, userId, regionName,
                 regionPosition, avatarMarker, avatarPosition, pollIntervals,
                 timerCount, movementLoops, requests, ticks, serverEvents,
                 produced, applied, received>>

\* the frame clock, the render loop and what the 3D view holds
frameVars == <<movementControls, now, frames, renderPending, rendered,
               rendererSize>>

avatarVars == <<appearance, avatar, avatarCount, avatarHeap, sceneAvatars>>

terrainVars == <<simplexCount, heightCalls, heightIn, heightOut, heights>>

sceneVars == <<frameVars, avatarVars, terrainVars>>

viewVars == <<lastTime, sceneVars>>

vars == <<nextObjectId, objects, heap, meshCount, smObjects, sceneChildren,
          selectedObject, editDisabled, deleteDisabled, form, systemLog,
          handler, dispatched, issuedIds, pointer, kindIn, kindOut,
          sessionVars, viewVars>>

worldVars == <<nextObjectId, objects, heap, meshCount, smObjects, sceneChildren,
               selectedObject, editDisabled, deleteDisabled, form, systemLog,
               handler, dispatched, issuedIds, pointer>>

kindVars == <<kindIn, kindOut>>

\* the object world without the log and the handler marker
objectVars == <<nextObjectId, objects, heap, meshCount, smObjects,
                sceneChildren, selectedObject, editDisabled, deleteDisabled,
                form, dispatched, issuedIds, pointer>>

----------------------------------------------------------------------------
(* Bounds and program constants *)

\* A session appends at most MaxLog lines to the system log and creates at
\* most MaxObjects objects.
MaxLog == 3
MaxObjects == 2

\* A run starts at most MaxTimers polling timers, which tick at most MaxTicks
\* times in all, and the server queues at most MaxEvents events.
MaxTimers == 2
MaxTicks == 2
MaxEvents == 2

\* The chat transcript gets at most MaxChat messages.
MaxChat == 2

\* A run has at most MaxFrames animation frames and builds at most MaxBuilds
\* avatars.
MaxFrames == 3
MaxBuilds == 3

\* A run makes at most MaxNoise noise generators and computes at most
\* MaxHeights vertex heights.
MaxNoise == 2
MaxHeights == 3

\* Fixed-point denominator: 1.0 is Unit twentieths.
Unit == 20

\* null: no selection.  Mesh identities start at 1.
Null == 0

\* MeshStandardMaterial's default emissive colour, and the selection highlight.
DefaultEmissive == 0
Highlight == 3355443

\* THREE.Color's default value (white), kept when a style string does not parse.
White == 16777215

\* <input type="range" id="object-size" min="0.1" max="10.0" step="0.1">
SizeMin == 2
SizeMax == 200
SizeStep == 2
\* <input type="range" id="object-transparency" min="0" max="1" step="0.05">
TransparencyMin == 0
TransparencyMax == 20
TransparencyStep == 1

----------------------------------------------------------------------------
(* Strings of hexadecimal digits.  A colour string '#rrggbb' is the        *)
(* sequence of its digits after the '#'.                                   *)

RECURSIVE HexValue(_)
HexValue(digits) ==
    IF digits = <<>> THEN 0
    ELSE 16 * HexValue(SubSeq(digits, 1, Len(digits) - 1)) + digits[Len(digits)]

\* Number.prototype.toString(16): no leading zeros, "0" for zero.
RECURSIVE ToString16(_)
ToString16(n) ==
    IF n < 16 THEN <<n>> ELSE Append(ToString16(n \div 16), n % 16)

RECURSIVE PadLeft(_, _)
PadLeft(digits, width) ==
    IF Len(digits) >= width THEN digits ELSE PadLeft(<<0>> \o digits, width)

\* THREE.Color.getHexString(): ('000000' + hex.toString(16)).slice(-6)
GetHexString(hex) == PadLeft(ToString16(hex), 6)

\* THREE.Color.set(string) on a colour whose value is prev (three.js r128,
\* Color.setStyle): six digits are the value, three digits are doubled, and
\* any other length leaves the colour as it was.
SetStyle(digits, prev) ==
    IF Len(digits) = 6 THEN HexValue(digits)
    ELSE IF Len(digits) = 3
         THEN HexValue(<<digits[1], digits[1], digits[2], digits[2],
                         digits[3], digits[3]>>)
         ELSE prev

\* The value sanitization of <input type="range">: clamp to [min, max] and snap
\* to the nearest step counted from min.
RangeValue(v, min, max, step) ==
    LET c == IF v < min THEN min ELSE IF v > max THEN max ELSE v
    IN  min + ((2 * (c - min) + step) \div (2 * step)) * step

Vec(x, y, z) == [x |-> x, y |-> y, z |-> z]

----------------------------------------------------------------------------
(* Inputs *)

\* What the user can put into the build form between two clicks (no listener
\* runs on a change of a control): a whole setting of the form that differs
\* from the page's defaults in every control, and single colours for a change
\* of the colour picker alone.
FormInputs ==
    { [primType |-> "sphere", size |-> 40, color |-> <<2, 1, 9, 6, 15, 3>>,
       transparency |-> 5, physical |-> TRUE, phantom |-> FALSE,
       temporary |-> TRUE] }

ColorInputs == { <<0, 0, 9, 6, 8, 8>> }

\* Items of the demo inventory that the drop handler turns into objects.
ItemInputs ==
    { [name |-> "Box", type |-> "object"],
      [name |-> "Wood", type |-> "texture"] }

\* Values of Math.floor(Math.random() * 16777215): one with six hexadecimal
\* digits and one with four.
RandomInputs == { 10066329, 43981 }

\* Arguments of direct calls of createObject and getTypeFromItem.
KindInputs ==
    { "box", "sphere", "cylinder", "prism", "torus", "mesh", "cone", "Box", "" }

ItemTypeInputs ==
    { "mesh", "texture", "object", "clothing", "sound", "Object", "" }

----------------------------------------------------------------------------
(* ObjectManager: pure parts *)

\* Mutant of GeometryFor: the default case builds a sphere
GeometryForDefaultSphere(type) ==
    CASE type = "box"      -> "BoxGeometry(1,1,1)"
      [] type = "sphere"   -> "SphereGeometry(0.5,32,32)"
      [] type = "cylinder" -> "CylinderGeometry(0.5,0.5,1,32)"
      [] type = "prism"    -> "ConeGeometry(0.5,1,4)"
      [] type = "torus"    -> "TorusGeometry(0.5,0.2,16,32)"
      [] OTHER             -> "SphereGeometry(0.5,32,32)"

\* createObject, the switch on objectData.type
GeometryFor(type) ==
    CASE type = "box"      -> "BoxGeometry(1,1,1)"
      [] type = "sphere"   -> "SphereGeometry(0.5,32,32)"
      [] type = "cylinder" -> "CylinderGeometry(0.5,0.5,1,32)"
      [] type = "prism"    -> "ConeGeometry(0.5,1,4)"
      [] type = "torus"    -> "TorusGeometry(0.5,0.2,16,32)"
      [] OTHER             -> "BoxGeometry(1,1,1)"

\* getTypeFromItem
GetTypeFromItem(inventoryItem) ==
    CASE inventoryItem.type = "mesh"    -> "mesh"
      [] inventoryItem.type = "texture" -> "box"
      [] inventoryItem.type = "object"  -> "box"
      [] OTHER                          -> "box"

\* Mutant of ObjectDataFromUI: the scale ignores the size slider
ObjectDataFromUIUnitScale(id, f) ==
    [id           |-> id,
     type         |-> f.primType,
     position     |-> Vec(0, f.size \div 2, 0),
     rotation     |-> Vec(0, 0, 0),
     scale        |-> Vec(Unit, Unit, Unit),
     color        |-> f.color,
     transparency |-> f.transparency,
     isPhysical   |-> f.physical,
     isPhantom    |-> f.phantom,
     isTemporary  |-> f.temporary]

\* Mutant of ObjectDataFromUI: the id is the number of records plus one
ObjectDataFromUICountId(id, f) ==
    [id           |-> Len(objects) + 1,
     type         |-> f.primType,
     position     |-> Vec(0, f.size \div 2, 0),
     rotation     |-> Vec(0, 0, 0),
     scale        |-> Vec(f.size, f.size, f.size),
     color        |-> f.color,
     transparency |-> f.transparency,
     isPhysical   |-> f.physical,
     isPhantom    |-> f.phantom,
     isTemporary  |-> f.temporary]

\* createObjectFromUI: the objectData literal, from the controls of the form
ObjectDataFromUI(id, f) ==
    [id           |-> id,
     type         |-> f.primType,
     position     |-> Vec(0, f.size \div 2, 0),
     rotation     |-> Vec(0, 0, 0),
     scale        |-> Vec(f.size, f.size, f.size),
     color        |-> f.color,
     transparency |-> f.transparency,
     isPhysical   |-> f.physical,
     isPhantom    |-> f.phantom,
     isTemporary  |-> f.temporary]

\* loadObjectFromInventory: the objectData literal
ObjectDataFromItem(id, inventoryItem, random) ==
    [id           |-> id,
     type         |-> GetTypeFromItem(inventoryItem),
     position     |-> Vec(0, Unit, 0),
     rotation     |-> Vec(0, 0, 0),
     scale        |-> Vec(Unit, Unit, Unit),
     color        |-> ToString16(random),
     transparency |-> 0,
     isPhysical   |-> FALSE,
     isPhantom    |-> FALSE,
     isTemporary  |-> FALSE]

\* createObject: the mesh it constructs
NewMesh(objectData) ==
    [geometry    |-> GeometryFor(objectData.type),
     color       |-> SetStyle(objectData.color, White),
     transparent |-> objectData.transparency > 0,
     opacity     |-> Unit - objectData.transparency,
     emissive    |-> DefaultEmissive,
     currentHex  |-> <<>>,
     position    |-> objectData.position,
     rotation    |-> objectData.rotation,
     scale       |-> objectData.scale,
     userData    |-> [id          |-> objectData.id,
                      isPhysical  |-> objectData.isPhysical,
                      isPhantom   |-> objectData.isPhantom,
                      isTemporary |-> objectData.isTemporary]]

\* editSelectedObject: what it writes to the mesh
EditedMesh(mesh, f) ==
    [mesh EXCEPT
        !.scale       = Vec(f.size, f.size, f.size),
        !.color       = SetStyle(f.color, mesh.color),
        !.transparent = f.transparency > 0,
        !.opacity     = Unit - f.transparency,
        !.userData    = [@ EXCEPT !.isPhysical  = f.physical,
                                  !.isPhantom   = f.phantom,
                                  !.isTemporary = f.temporary]]

\* Mutant of EditedRecord: the record's transparency is not updated
EditedRecordKeepsTransparency(objectData, f) ==
    [objectData EXCEPT
        !.scale        = Vec(f.size, f.size, f.size),
        !.color        = f.color,
        !.isPhysical   = f.physical,
        !.isPhantom    = f.phantom,
        !.isTemporary  = f.temporary]

\* editSelectedObject: what it writes to the record
EditedRecord(objectData, f) ==
    [objectData EXCEPT
        !.scale        = Vec(f.size, f.size, f.size),
        !.color        = f.color,
        !.transparency = f.transparency,
        !.isPhysical   = f.physical,
        !.isPhantom    = f.phantom,
        !.isTemporary  = f.temporary]

\* Mutant of FindIndex: the predicate never matches
FindIndexNoMatch(records, id) == 0

\* Array.prototype.findIndex(o => o.id === id), counted from 1; 0 for -1
FindIndex(records, id) ==
    IF \E i \in 1..Len(records) : records[i].id = id
    THEN CHOOSE i \in 1..Len(records) :
            /\ records[i].id = id
            /\ \A j \in 1..(i - 1) : records[j].id # id
    ELSE 0

\* Array.prototype.indexOf(x), counted from 1; 0 for -1
IndexOf(seq, x) ==
    IF \E i \in 1..Len(seq) : seq[i] = x
    THEN CHOOSE i \in 1..Len(seq) :
            /\ seq[i] = x
            /\ \A j \in 1..(i - 1) : seq[j] # x
    ELSE 0

\* Array.prototype.splice(index, 1), index counted from 1
Splice(seq, index) ==
    SubSeq(seq, 1, index - 1) \o SubSeq(seq, index + 1, Len(seq))

\* addLogEntry: the element appended to #system-log
LogEntry(template, type, id, name) ==
    [level |-> "info", template |-> template, type |-> type, id |-> id,
     name |-> name]

----------------------------------------------------------------------------
(* BuildingManager: the listeners of objectSelected and objectDeselected *)

OnObjectSelected(f, object) ==
    [f EXCEPT
        !.size         = RangeValue(object.scale.x, SizeMin, SizeMax, SizeStep),
        !.color        = GetHexString(object.color),
        !.transparency = RangeValue(IF object.transparent
                                    THEN Unit - object.opacity ELSE 0,
                                    TransparencyMin, TransparencyMax,
                                    TransparencyStep),
        !.physical     = object.userData.isPhysical,
        !.phantom      = object.userData.isPhantom,
        !.temporary    = object.userData.isTemporary]

ResetControls(f) ==
    [f EXCEPT
        !.size         = Unit,
        !.color        = <<15, 4, 4, 3, 3, 6>>,
        !.transparency = 0,
        !.physical     = FALSE,
        !.phantom      = FALSE,
        !.temporary    = FALSE]

\* The form as the page loads it
InitialForm ==
    [primType |-> "box", size |-> Unit, color |-> <<15, 4, 4, 3, 3, 6>>,
     transparency |-> 0, physical |-> FALSE, phantom |-> FALSE,
     temporary |-> FALSE]

----------------------------------------------------------------------------
(* SceneManager *)

\* new CustomEvent(type, {detail: {object}}); detail is <<>> when absent
CustomEvent(type, detail) == [type |-> type, detail |-> detail]

\* Mutant of SelectedHeap: the previous selection's highlight is not removed
SelectedHeapNoRestore(object) ==
    [heap EXCEPT
        ![object] = [@ EXCEPT !.currentHex = <<heap[object].emissive>>,
                              !.emissive   = Highlight]]

\* selectObject: the meshes after the highlight has moved to object
SelectedHeap(object) ==
    LET restored ==
            IF selectedObject # Null
            THEN [heap EXCEPT ![selectedObject].emissive =
                                  heap[selectedObject].currentHex[1]]
            ELSE heap
    IN  [restored EXCEPT
            ![object] = [@ EXCEPT !.currentHex = <<restored[object].emissive>>,
                                  !.emissive   = Highlight]]

\* selectObject, with the listener BuildingManager.onObjectSelected
SelectObject(object) ==
    /\ heap' = SelectedHeap(object)
    /\ selectedObject' = object
    /\ editDisabled' = FALSE
    /\ deleteDisabled' = FALSE
    /\ dispatched' = <<CustomEvent("objectSelected", <<object>>)>>
    /\ form' = OnObjectSelected(form, heap'[object])

\* deselectObject, with the listener BuildingManager.resetControls
DeselectObject ==
    IF selectedObject # Null
    THEN /\ heap' = [heap EXCEPT ![selectedObject].emissive =
                                     heap[selectedObject].currentHex[1]]
         /\ selectedObject' = Null
         /\ editDisabled' = TRUE
         /\ deleteDisabled' = TRUE
         /\ dispatched' = <<CustomEvent("objectDeselected", <<>>)>>
         /\ form' = ResetControls(form)
    ELSE /\ dispatched' = <<>>
         /\ UNCHANGED <<heap, selectedObject, editDisabled, deleteDisabled, form>>

\* addObject
AddObject(object) ==
    /\ sceneChildren' = sceneChildren \cup {object}
    /\ smObjects' = Append(smObjects, object)

\* Mutant of RemoveObject: the controls stay enabled
RemoveObjectKeepsControls(object) ==
    /\ smObjects' = IF IndexOf(smObjects, object) # 0
                    THEN Splice(smObjects, IndexOf(smObjects, object))
                    ELSE smObjects
    /\ sceneChildren' = sceneChildren \ {object}
    /\ IF selectedObject = object
       THEN /\ selectedObject' = Null
            /\ UNCHANGED <<editDisabled, deleteDisabled>>
       ELSE UNCHANGED <<selectedObject, editDisabled, deleteDisabled>>

\* removeObject
RemoveObject(object) ==
    /\ smObjects' = IF IndexOf(smObjects, object) # 0
                    THEN Splice(smObjects, IndexOf(smObjects, object))
                    ELSE smObjects
    /\ sceneChildren' = sceneChildren \ {object}
    /\ IF selectedObject = object
       THEN /\ selectedObject' = Null
            /\ editDisabled' = TRUE
            /\ deleteDisabled' = TRUE
       ELSE UNCHANGED <<selectedObject, editDisabled, deleteDisabled>>

\* A picking ray is the distance at which it meets each mesh, Miss where it
\* does not, and the distance of the nearest node that was not registered
\* through addObject (avatar, terrain, water, grid).
Miss == 0

NoRay == [mesh |-> <<>>, scenery |-> Miss]

Ray(mesh, scenery) == [mesh |-> mesh, scenery |-> scenery]

\* Raycaster.intersectObjects(objects) before its sort: the objects the ray
\* meets, in the order of the array
IntersectObjectsUnsorted(objs, ray) ==
    SelectSeq(objs, LAMBDA o : ray.mesh[o] # Miss)

\* Array.prototype.sort(ascSort), a stable sort by ascending distance
RECURSIVE SortByDistance(_, _)
SortByDistance(seq, ray) ==
    IF seq = <<>> THEN <<>>
    ELSE LET o      == seq[Len(seq)]
             sorted == SortByDistance(SubSeq(seq, 1, Len(seq) - 1), ray)
             before == SelectSeq(sorted,
                                 LAMBDA n : ray.mesh[n] <= ray.mesh[o])
             after  == SelectSeq(sorted,
                                 LAMBDA n : ray.mesh[n] > ray.mesh[o])
         IN  before \o <<o>> \o after

\* Raycaster.intersectObjects(objects) (three.js r128): only the objects of
\* the array are tested, and the intersections are sorted by distance
IntersectObjects(objs, ray) ==
    SortByDistance(IntersectObjectsUnsorted(objs, ray), ray)

----------------------------------------------------------------------------
(* Handlers *)

\* The user changes controls of the build form; no code runs.
InputForm(f) ==
    /\ form' = f
    /\ handler' = "input"
    /\ pointer' = NoRay
    /\ dispatched' = <<>>
    /\ UNCHANGED <<nextObjectId, objects, heap, meshCount, smObjects,
                   sceneChildren, selectedObject, editDisabled, deleteDisabled,
                   systemLog, issuedIds, kindVars, sessionVars, viewVars>>

\* The user changes the colour picker alone.
InputColor(c) ==
    /\ form' = [form EXCEPT !.color = c]
    /\ handler' = "input"
    /\ pointer' = NoRay
    /\ dispatched' = <<>>
    /\ UNCHANGED <<nextObjectId, objects, heap, meshCount, smObjects,
                   sceneChildren, selectedObject, editDisabled, deleteDisabled,
                   systemLog, issuedIds, kindVars, sessionVars, viewVars>>

\* ObjectManager.createObjectFromUI (click on #create-object)
CreateObjectFromUI ==
    LET objectData == ObjectDataFromUI(nextObjectId, form)
        object     == meshCount + 1
    IN  /\ Len(systemLog) < MaxLog
        /\ nextObjectId <= MaxObjects
        /\ nextObjectId' = nextObjectId + 1
        /\ issuedIds' = Append(issuedIds, objectData.id)
        /\ meshCount' = object
        /\ heap' = heap @@ (object :> NewMesh(objectData))
        /\ AddObject(object)
        /\ objects' = Append(objects, objectData)
        /\ systemLog' = Append(systemLog,
               LogEntry("Created ${type} object with ID: ${id}",
                        objectData.type, objectData.id, ""))
        /\ handler' = "createObjectFromUI"
        /\ pointer' = NoRay
        /\ dispatched' = <<>>
        /\ UNCHANGED <<selectedObject, editDisabled, deleteDisabled, form,
                       kindVars, sessionVars, viewVars>>

\* InventoryManager.handleObjectDrop (drop of an object or texture item on the
\* scene), which calls ObjectManager.loadObjectFromInventory
HandleObjectDrop(item, random) ==
    LET objectData == ObjectDataFromItem(nextObjectId, item, random)
        object     == meshCount + 1
    IN  /\ Len(systemLog) + 2 <= MaxLog
        /\ nextObjectId <= MaxObjects
        /\ nextObjectId' = nextObjectId + 1
        /\ issuedIds' = Append(issuedIds, objectData.id)
        /\ meshCount' = object
        /\ heap' = heap @@ (object :> NewMesh(objectData))
        /\ AddObject(object)
        /\ objects' = Append(objects, objectData)
        /\ systemLog' = systemLog \o
               << LogEntry("Created object from inventory item: ${name}",
                           "", 0, item.name),
                  LogEntry("Placed ${name} from inventory", "", 0, item.name) >>
        /\ handler' = "handleObjectDrop"
        /\ pointer' = NoRay
        /\ dispatched' = <<>>
        /\ UNCHANGED <<selectedObject, editDisabled, deleteDisabled, form,
                       kindVars, sessionVars, viewVars>>

\* SceneManager.onMouseDown: ray is the picking ray through the pointer
OnMouseDown(ray) ==
    /\ LET intersects == IntersectObjects(smObjects, ray)
       IN  IF Len(intersects) > 0
           THEN SelectObject(intersects[1])
           ELSE DeselectObject
    /\ pointer' = ray
    /\ handler' = "onMouseDown"
    /\ UNCHANGED <<nextObjectId, objects, meshCount, smObjects, sceneChildren,
                   systemLog, issuedIds, kindVars, sessionVars, viewVars>>

\* ObjectManager.editSelectedObject, called by the click listener of
\* #edit-object or directly
EditSelectedObject ==
    LET object          == selectedObject
        objectId        == heap[object].userData.id
        objectDataIndex == FindIndex(objects, objectId)
    IN  /\ handler' = "editSelectedObject"
        /\ pointer' = NoRay
        /\ dispatched' = <<>>
        /\ IF object = Null
           THEN UNCHANGED <<heap, objects, systemLog>>
           ELSE IF objectDataIndex = 0
           THEN UNCHANGED <<heap, objects, systemLog>>
           ELSE /\ Len(systemLog) < MaxLog
                /\ heap' = [heap EXCEPT ![object] = EditedMesh(@, form)]
                /\ objects' = [objects EXCEPT
                                  ![objectDataIndex] = EditedRecord(@, form)]
                /\ systemLog' = Append(systemLog,
                       LogEntry("Updated object with ID: ${objectId}",
                                "", objectId, ""))
        /\ UNCHANGED <<nextObjectId, meshCount, smObjects, sceneChildren,
                       selectedObject, editDisabled, deleteDisabled, form,
                       issuedIds, kindVars, sessionVars, viewVars>>

\* Mutant of DeleteSelectedObject: the log line is written before the check
\* for a selection
DeleteSelectedObjectLogsFirst ==
    LET object      == selectedObject
        objectIndex == FindIndex(objects, heap[object].userData.id)
    IN  /\ handler' = "deleteSelectedObject"
        /\ pointer' = NoRay
        /\ dispatched' = <<>>
        /\ Len(systemLog) < MaxLog
        /\ systemLog' = Append(systemLog,
               LogEntry("Deleted object with ID: ${objectId}", "", 0, ""))
        /\ IF object = Null
           THEN UNCHANGED <<heap, objects, smObjects, sceneChildren,
                            selectedObject, editDisabled, deleteDisabled>>
           ELSE /\ RemoveObject(object)
                /\ objects' = IF objectIndex # 0
                              THEN Splice(objects, objectIndex)
                              ELSE objects
                /\ heap' = [h \in DOMAIN heap \ {object} |-> heap[h]]
        /\ UNCHANGED <<nextObjectId, meshCount, form, issuedIds, kindVars, sessionVars, viewVars>>

\* Mutant of DeleteSelectedObject: the node is removed and the record stays
DeleteSelectedObjectKeepsRecord ==
    LET object      == selectedObject
        objectId    == heap[object].userData.id
    IN  /\ handler' = "deleteSelectedObject"
        /\ pointer' = NoRay
        /\ dispatched' = <<>>
        /\ IF object = Null
           THEN UNCHANGED <<heap, objects, systemLog, smObjects, sceneChildren,
                            selectedObject, editDisabled, deleteDisabled>>
           ELSE /\ Len(systemLog) < MaxLog
                /\ RemoveObject(object)
                /\ objects' = objects
                /\ systemLog' = Append(systemLog,
                       LogEntry("Deleted object with ID: ${objectId}",
                                "", objectId, ""))
                /\ heap' = [h \in DOMAIN heap \ {object} |-> heap[h]]
        /\ UNCHANGED <<nextObjectId, meshCount, form, issuedIds, kindVars,
                       sessionVars, viewVars>>

\* ObjectManager.deleteSelectedObject, called by the click listener of
\* #delete-object or directly
DeleteSelectedObject ==
    LET object      == selectedObject
        objectId    == heap[object].userData.id
        objectIndex == FindIndex(objects, objectId)
    IN  /\ handler' = "deleteSelectedObject"
        /\ pointer' = NoRay
        /\ dispatched' = <<>>
        /\ IF object = Null
           THEN UNCHANGED <<heap, objects, systemLog, smObjects, sceneChildren,
                            selectedObject, editDisabled, deleteDisabled>>
           ELSE /\ Len(systemLog) < MaxLog
                /\ RemoveObject(object)
                /\ objects' = IF objectIndex # 0
                              THEN Splice(objects, objectIndex)
                              ELSE objects
                /\ systemLog' = Append(systemLog,
                       LogEntry("Deleted object with ID: ${objectId}",
                                "", objectId, ""))
                \* the mesh is unreachable once the handler returns
                /\ heap' = [h \in DOMAIN heap \ {object} |-> heap[h]]
        /\ UNCHANGED <<nextObjectId, meshCount, form, issuedIds, kindVars, sessionVars, viewVars>>

----------------------------------------------------------------------------
(* The main script: session, status display, polling and push handlers.     *)
(*                                                                         *)
(* The page loads js/main.js.  The script that matches the page (3D        *)
(* avatar, login and logout buttons) is the script text at lines 1040-1573  *)
(* of static/css/style.css; static/js/main.js holds the earlier script.     *)
(* The two differ in the element bindings of the DOMContentLoaded closure:  *)
(* main.js binds systemLog (line 11), the later script does not (lines      *)
(* 1061-1073) although its clearDisplay reads systemLog (line 1446).        *)
(* systemLogDeclared says which binding the running script has.  Promise    *)
(* callbacks and listeners run to completion, so each is one action.        *)
(* Marker coordinates are percentages counted in 1/MapSpan.                 *)

\* updateMiniMapMarker: (x / 256) * 100
MapSpan == 256
Percent == 100

\* clearDisplay: updateMiniMapMarker(128, 128)
MapCentre == 128

\* What an index past the end of an array yields (undefined).  Wire
\* coordinates are never negative, so the value stands apart from all of them.
Undefined == -1

\* A field the payload does not carry (undefined or null)
NoPosition == <<>>
NoRegion == ""
NoUser == <<>>

\* No timer: the requests that no polling timer issued carry it
NoTimer == 0

\* position[i] of JavaScript, the index counted from 1
At(position, i) == IF i <= Len(position) THEN position[i] ELSE Undefined

----------------------------------------------------------------------------
(* Payloads *)

\* status strings of status_update events: the cases of updateStatus and
\* two strings it has no case for
StatusInputs ==
    { "idle", "starting", "initializing", "logging_in", "logged_in",
      "in_world", "logging_out", "completed", "error",
      "running_simulation_1", "running_simulation_2", "running_simulation_3",
      "reconnecting", "Idle" }

\* the status strings pushed between clicks
SessionStatusInputs == { "in_world", "completed" }

\* teleport events: well-formed ones, one without a position and one whose
\* position has two components
TeleportInputs ==
    { [region |-> "Sandbox", position |-> <<128, 64, 22>>],
      [region |-> "Welcome", position |-> <<200, 30, 5>>],
      [region |-> "Welcome", position |-> NoPosition],
      [region |-> "Sandbox", position |-> <<10, 20>>] }

TestUser == [name |-> "Test User", id |-> "u-1"]

\* /api/state snapshots
SnapshotInputs ==
    { [status |-> "in_world", logged_in |-> TRUE, user |-> <<TestUser>>,
       current_region |-> "Sandbox", position |-> <<128, 64, 22>>],
      [status |-> "in_world", logged_in |-> TRUE, user |-> <<TestUser>>,
       current_region |-> "Welcome", position |-> NoPosition],
      [status |-> "logging_out", logged_in |-> FALSE, user |-> NoUser,
       current_region |-> NoRegion, position |-> NoPosition],
      [status |-> "completed", logged_in |-> FALSE, user |-> NoUser,
       current_region |-> NoRegion, position |-> NoPosition],
      [status |-> "error", logged_in |-> FALSE, user |-> NoUser,
       current_region |-> NoRegion, position |-> NoPosition] }

\* the events the server queues for /api/events
EventInputs ==
    { [type |-> "log", message |-> "Connecting", level |-> "INFO"],
      [type |-> "login", message |-> "", level |-> ""],
      [type |-> "chat", message |-> "", level |-> ""] }

\* chat_message events of the push channel
ChatInputs == { [from |-> "Avatar One", message |-> "Hello"] }

\* the events of the queue that stand for what the push channel delivers
\* too, and the login and logout events
QueueInputs ==
    { [type |-> "chat", message |-> "Hello", level |-> ""],
      [type |-> "teleport", message |-> "Sandbox", level |-> ""],
      [type |-> "login", message |-> "", level |-> ""],
      [type |-> "logout", message |-> "", level |-> ""] }

\* batches with a malformed event: a log event without a level among
\* well-formed events
BatchInputs ==
    { [type |-> "log", message |-> "No level"],
      [type |-> "log", message |-> "Connecting", level |-> "INFO"],
      [type |-> "login", message |-> "", level |-> ""] }

\* how a fetch settles: its JSON arrives, or the promise is rejected
\* (transport failure, or a body that is not JSON)
StartResults ==
    { [ok |-> TRUE, data |-> [success |-> TRUE, user |-> NoUser]],
      [ok |-> TRUE, data |-> [success |-> FALSE, user |-> NoUser]],
      [ok |-> FALSE, data |-> [success |-> FALSE, user |-> NoUser]] }

LoginResults ==
    { [ok |-> TRUE, data |-> [success |-> TRUE, user |-> <<TestUser>>]],
      [ok |-> TRUE, data |-> [success |-> FALSE, user |-> NoUser]],
      [ok |-> FALSE, data |-> [success |-> FALSE, user |-> NoUser]] }

LogoutResults ==
    { [ok |-> TRUE, data |-> [success |-> TRUE, user |-> NoUser]],
      [ok |-> TRUE, data |-> [success |-> FALSE, user |-> NoUser]],
      [ok |-> FALSE, data |-> [success |-> FALSE, user |-> NoUser]] }

----------------------------------------------------------------------------
(* Functions of the main script *)

Terminal == { "completed", "error" }

\* updateStatus: the switch that chooses statusIndicator.textContent
StatusLabelFirstUpper(status) ==
    CASE status = "idle"         -> "Idle"
      [] status = "starting"     -> "Starting..."
      [] status = "initializing" -> "Initializing..."
      [] status = "logging_in"   -> "Logging in..."
      [] status = "logged_in"    -> "Logged in"
      [] status = "in_world"     -> "In world"
      [] status = "logging_out"  -> "Logging out..."
      [] status = "completed"    -> "Completed"
      [] status = "error"        -> "Error"
      [] status = "running_simulation_1" -> "Running (1/3)"
      [] status = "running_simulation_2" -> "Running (2/3)"
      [] status = "running_simulation_3" -> "Running (3/3)"
      [] OTHER                   -> status

StatusLabelNoDefault(status) ==
    CASE status = "idle"         -> "Idle"
      [] status = "starting"     -> "Starting..."
      [] status = "initializing" -> "Initializing..."
      [] status = "logging_in"   -> "Logging in..."
      [] status = "logged_in"    -> "Logged in"
      [] status = "in_world"     -> "In World"
      [] status = "logging_out"  -> "Logging out..."
      [] status = "completed"    -> "Completed"
      [] status = "error"        -> "Error"
      [] status = "running_simulation_1" -> "Running (1/3)"
      [] status = "running_simulation_2" -> "Running (2/3)"
      [] status = "running_simulation_3" -> "Running (3/3)"
      [] OTHER                   -> "Unknown"

StatusLabel(status) ==
    CASE status = "idle"         -> "Idle"
      [] status = "starting"     -> "Starting..."
      [] status = "initializing" -> "Initializing..."
      [] status = "logging_in"   -> "Logging in..."
      [] status = "logged_in"    -> "Logged in"
      [] status = "in_world"     -> "In World"
      [] status = "logging_out"  -> "Logging out..."
      [] status = "completed"    -> "Completed"
      [] status = "error"        -> "Error"
      [] status = "running_simulation_1" -> "Running (1/3)"
      [] status = "running_simulation_2" -> "Running (2/3)"
      [] status = "running_simulation_3" -> "Running (3/3)"
      [] OTHER                   -> status

\* statusIndicator after updateStatus(status); className is "status-" followed
\* by the status, of which the status is kept
StatusIndicator(status) ==
    [className |-> status, textContent |-> StatusLabel(status)]

\* updateLoginButtons(isLoggedIn) on the pair of buttons b
UpdateLoginButtons(isLoggedIn, b) ==
    IF isLoggedIn
    THEN [login  |-> [b.login EXCEPT !.display = "none"],
          logout |-> [b.logout EXCEPT !.display = "block"]]
    ELSE [login  |-> [b.login EXCEPT !.display = "block"],
          logout |-> [b.logout EXCEPT !.display = "none"]]

\* the pair of buttons after updateStatus(status)
StatusButtons(status, b) ==
    CASE status = "logging_in" ->
            [b EXCEPT !.login.disabled = TRUE]
      [] status \in {"logged_in", "in_world"} ->
            UpdateLoginButtons(TRUE, b)
      [] status = "logging_out" ->
            [b EXCEPT !.logout.disabled = TRUE]
      [] status = "completed" ->
            UpdateLoginButtons(FALSE, [b EXCEPT !.login.disabled = FALSE,
                                                !.logout.disabled = FALSE])
      [] status = "error" ->
            [b EXCEPT !.login.disabled = FALSE, !.logout.disabled = FALSE]
      [] OTHER -> b

Buttons == [login |-> loginButton, logout |-> logoutButton]

\* updateRegionInfo(region, position): the two displays
RegionInfo(region, position) ==
    [name     |-> IF region # NoRegion THEN region ELSE "Not connected",
     position |-> IF position # NoPosition /\ Len(position) = 3
                  THEN position ELSE <<0, 0, 0>>]

\* updateMiniMapMarker(x, y): style.left and style.top, in 1/MapSpan percent
MiniMapMarkerNotInverted(x, y) ==
    [left |-> Percent * x, top |-> Percent * y]

MiniMapMarkerMovesBy(x, y) ==
    [left |-> (avatarMarker.left + Percent * x) % (Percent * MapSpan),
     top  |-> (avatarMarker.top + Percent * MapSpan - Percent * y)
                 % (Percent * MapSpan)]

MiniMapMarker(x, y) ==
    [left |-> Percent * x, top |-> Percent * MapSpan - Percent * y]

\* avatarManager.setPosition(position[0], position[2], position[1])
ScenePosition(position) ==
    Vec(At(position, 1), At(position, 3), At(position, 2))

\* the global addLogEntry(message, level): the element appended to
\* #system-log; args are the values the template literal interpolates
Line(message, args, level) ==
    [level |-> level, template |-> message, args |-> args]

\* String.prototype.toLowerCase on the level of a log event
ToLowerCase(level) ==
    CASE level = "INFO"    -> "info"
      [] level = "WARNING" -> "warning"
      [] level = "ERROR"   -> "error"
      [] OTHER             -> level

ProcessEventLogsPushed(event, d) ==
    CASE event.type = "log" ->
            [d EXCEPT !.log = Append(@, Line(event.message, <<>>,
                                             ToLowerCase(event.level)))]
      [] event.type = "login" ->
            [loginStatus |-> "Logged in",
             buttons     |-> UpdateLoginButtons(TRUE, d.buttons),
             log         |-> Append(d.log, Line("Login successful", <<>>, "info"))]
      [] event.type = "logout" ->
            [loginStatus |-> "Logged out",
             buttons     |-> UpdateLoginButtons(FALSE, d.buttons),
             log         |-> Append(d.log, Line("Logged out", <<>>, "info"))]
      [] OTHER -> [d EXCEPT !.log = Append(@, Line(event.message, <<>>, "info"))]

\* processEvent(event) on the display d = [loginStatus, buttons, log]
ProcessEvent(event, d) ==
    CASE event.type = "log" ->
            [d EXCEPT !.log = Append(@, Line(event.message, <<>>,
                                             ToLowerCase(event.level)))]
      [] event.type = "login" ->
            [loginStatus |-> "Logged in",
             buttons     |-> UpdateLoginButtons(TRUE, d.buttons),
             log         |-> Append(d.log, Line("Login successful", <<>>, "info"))]
      [] event.type = "logout" ->
            [loginStatus |-> "Logged out",
             buttons     |-> UpdateLoginButtons(FALSE, d.buttons),
             log         |-> Append(d.log, Line("Logged out", <<>>, "info"))]
      [] OTHER -> d

\* event.level.toLowerCase() of a log event that has no level is a
\* TypeError (toLowerCase of undefined)
Throws(event) == event.type = "log" /\ "level" \notin DOMAIN event

\* the index of the first event of a batch that makes processEvent throw,
\* 0 if none does
FirstThrow(events) ==
    LET bad == {i \in 1..Len(events) : Throws(events[i].event)}
    IN  IF bad = {} THEN 0 ELSE CHOOSE i \in bad : \A j \in bad : i <= j

\* the events forEach hands to processEvent: the exception of a callback
\* ends forEach
Handed(events) ==
    IF FirstThrow(events) = 0 THEN events
    ELSE SubSeq(events, 1, FirstThrow(events))

\* events.forEach(event => processEvent(event)); a queued event is the pair
\* of its sequence number and the event
RECURSIVE ProcessEvents(_, _)
ProcessEvents(events, d) ==
    IF events = <<>> \/ Throws(Head(events).event) THEN d
    ELSE ProcessEvents(Tail(events), ProcessEvent(Head(events).event, d))

\* the sequence numbers of a batch, in batch order
SeqNumbers(events) == [i \in 1..Len(events) |-> events[i].seq]

\* pollEvents, state callback: the timers left active by
\* if (data.status === 'completed' || data.status === 'error')
\*     clearInterval(pollInterval)
ClearIntervalAnyStatus(timer, data) == pollIntervals \ {timer}

ClearInterval(timer, data) ==
    IF data.status \in Terminal THEN pollIntervals \ {timer} ELSE pollIntervals

\* a fetch and the closure it belongs to: batch is what the server put in
\* the body of an /api/events response
Request(url, timer, n, batch) ==
    [url |-> url, timer |-> timer, n |-> n, batch |-> batch]

InFlight(url) == \E r \in requests : r.url = url

\* what the last handler was given, and the error that ended it ("" if none)
Received(data, timer, n, error) ==
    [data |-> data, timer |-> timer, n |-> n, error |-> error]

NoData == [status |-> ""]

----------------------------------------------------------------------------
(* The page once the DOMContentLoaded listener of the main script has run:  *)
(* updateStatus('idle'), updateLoginButtons(false)                          *)

Loaded ==
    /\ statusIndicator = StatusIndicator("idle")
    /\ startButton = [disabled |-> FALSE, textContent |-> "Start"]
    /\ loginButton = [disabled |-> FALSE, display |-> "block"]
    /\ logoutButton = [disabled |-> FALSE, display |-> "none"]
    /\ loginStatus = "Not logged in"
    /\ userName = ""
    /\ userId = ""
    /\ regionName = "Not connected"
    /\ regionPosition = <<0, 0, 0>>
    /\ avatarMarker = [left |-> Percent * MapCentre, top |-> Percent * MapCentre]
    /\ avatarPosition = Vec(0, 0, 0)
    /\ pollIntervals = {}
    /\ timerCount = 0
    /\ movementLoops = 0
    /\ requests = {}
    /\ ticks = 0
    /\ serverEvents = <<>>
    /\ produced = 0
    /\ applied = <<>>
    /\ received = Received(NoData, NoTimer, 0, "")
    /\ chatMessages = <<>>

statusVars == <<statusIndicator, loginButton, logoutButton>>
summaryVars == <<loginStatus, userName, userId>>
placeVars == <<regionName, regionPosition, avatarMarker, avatarPosition>>
timerVars == <<pollIntervals, timerCount, movementLoops, ticks>>
serverVars == <<serverEvents, produced, applied>>

----------------------------------------------------------------------------
(* Push handlers *)

\* socket.on('status_update'): updateStatus(data.status)
StatusUpdate(data) ==
    LET b == StatusButtons(data.status, Buttons)
    IN  /\ statusIndicator' = StatusIndicator(data.status)
        /\ loginButton' = b.login
        /\ logoutButton' = b.logout
        /\ handler' = "status_update"
        /\ received' = Received(data, NoTimer, 0, "")
        /\ UNCHANGED <<objectVars, kindVars, viewVars, systemLog, systemLogDeclared,
                       chatMessages,
                       startButton, summaryVars, placeVars, timerVars,
                       requests, serverVars>>

\* socket.on('chat_message'): addChatMessage(data.from, data.message)
ChatMessage(data) ==
    /\ Len(chatMessages) < MaxChat
    /\ chatMessages' = Append(chatMessages,
                              [sender |-> data.from, message |-> data.message])
    /\ handler' = "chat_message"
    /\ received' = Received(data, NoTimer, 0, "")
    /\ UNCHANGED <<objectVars, kindVars, viewVars, systemLog,
                   systemLogDeclared, statusVars, startButton, summaryVars,
                   placeVars, timerVars, requests, serverVars>>

\* socket.on('teleport').  data.position[0] of an event without a position
\* is a TypeError: the listener ends there.
Teleport(data) ==
    LET info == RegionInfo(data.region, data.position)
        p    == data.position
    IN  /\ Len(systemLog) < MaxLog
        /\ regionName' = info.name
        /\ regionPosition' = info.position
        /\ IF p = NoPosition
           THEN /\ received' = Received(data, NoTimer, 0, "TypeError")
                /\ UNCHANGED <<avatarMarker, avatarPosition, systemLog>>
           ELSE /\ avatarMarker' = MiniMapMarker(At(p, 1), At(p, 2))
                /\ avatarPosition' = ScenePosition(p)
                /\ systemLog' = Append(systemLog,
                      Line("Teleported to ${data.region} at position ${data.position.join(', ')}",
                           <<data.region, p>>, "info"))
                /\ received' = Received(data, NoTimer, 0, "")
        /\ handler' = "teleport"
        /\ UNCHANGED <<objectVars, kindVars, viewVars, systemLogDeclared, chatMessages,
                       statusVars,
                       startButton, summaryVars, timerVars, requests,
                       serverVars>>

----------------------------------------------------------------------------
(* Session handlers *)

\* startSimulation (click on #start-button; a disabled button fires no
\* click).  clearDisplay empties chatMessages and then reads systemLog: in
\* the script that does not bind it the read is a ReferenceError and the
\* listener ends there.
StartSimulation ==
    /\ ~startButton.disabled
    /\ handler' = "startSimulation"
    /\ IF systemLogDeclared
       THEN LET b == UpdateLoginButtons(FALSE, Buttons)
            IN  /\ timerCount < MaxTimers
                /\ ~InFlight("/api/start")
                \* clearDisplay
                /\ systemLog' = <<>>
                /\ loginStatus' = "Not logged in"
                /\ userName' = ""
                /\ userId' = ""
                /\ regionName' = "Not connected"
                /\ regionPosition' = <<0, 0, 0>>
                /\ avatarMarker' = MiniMapMarker(MapCentre, MapCentre)
                /\ avatarPosition' = Vec(0, 0, 0)
                \* the rest of startSimulation
                /\ startButton' = [disabled |-> TRUE,
                                   textContent |-> "Simulation Running..."]
                /\ statusIndicator' = StatusIndicator("starting")
                /\ loginButton' = StatusButtons("starting", b).login
                /\ logoutButton' = StatusButtons("starting", b).logout
                /\ requests' = requests \cup
                                  {Request("/api/start", NoTimer, 0, <<>>)}
                /\ received' = Received(NoData, NoTimer, 0, "")
       ELSE /\ received' = Received(NoData, NoTimer, 0, "ReferenceError")
            /\ UNCHANGED <<systemLog, statusVars, startButton, summaryVars,
                           placeVars, requests>>
    /\ chatMessages' = <<>>
    /\ UNCHANGED <<objectVars, kindVars, viewVars, systemLogDeclared, timerVars,
                   serverVars>>

\* the promise of fetch('/api/start') settles.  Fulfilled: pollEvents()
\* starts an interval timer and startMovementLoop() a frame loop, whatever
\* the body says.  Rejected: updateStatus('error') and the button is enabled.
StartResponse(r, result) ==
    /\ r \in requests
    /\ r.url = "/api/start"
    /\ requests' = requests \ {r}
    /\ handler' = "start"
    /\ received' = Received(result.data, NoTimer, 0,
                            IF result.ok THEN "" ELSE "rejected")
    /\ IF result.ok
       THEN /\ timerCount' = timerCount + 1
            /\ pollIntervals' = pollIntervals \cup {timerCount + 1}
            /\ movementLoops' = movementLoops + 1
            /\ lastTime' = Append(lastTime, 0)
            /\ UNCHANGED <<statusVars, startButton>>
       ELSE LET b == StatusButtons("error", Buttons)
            IN  /\ statusIndicator' = StatusIndicator("error")
                /\ loginButton' = b.login
                /\ logoutButton' = b.logout
                /\ startButton' = [disabled |-> FALSE,
                                   textContent |-> "Start Simulation"]
                /\ UNCHANGED <<timerCount, pollIntervals, movementLoops,
                               lastTime>>
    /\ UNCHANGED <<objectVars, kindVars, sceneVars, systemLog, systemLogDeclared,
                   chatMessages,
                   summaryVars, placeVars, ticks, serverVars>>

\* the server queues an event for /api/events
ServerEvent(event) ==
    /\ produced < MaxEvents
    /\ produced' = produced + 1
    /\ serverEvents' = Append(serverEvents,
                              [seq |-> produced + 1, event |-> event])
    /\ UNCHANGED <<worldVars, kindVars, viewVars, systemLogDeclared, chatMessages,
                   statusVars,
                   startButton, summaryVars, placeVars, timerVars, requests,
                   applied, received>>

\* the callback of setInterval in pollEvents: the tick of an active timer
\* sends fetch('/api/state') and fetch('/api/events').  The server answers
\* the event fetch with the events queued since the previous fetch.
Tick(timer) ==
    /\ timer \in pollIntervals
    /\ ticks < MaxTicks
    /\ ticks' = ticks + 1
    /\ requests' = requests \cup
          { Request("/api/state", timer, ticks + 1, <<>>),
            Request("/api/events", timer, ticks + 1, serverEvents) }
    /\ serverEvents' = <<>>
    /\ handler' = "setInterval"
    /\ received' = Received(NoData, timer, ticks + 1, "")
    /\ UNCHANGED <<objectVars, kindVars, viewVars, systemLog, systemLogDeclared,
                   chatMessages,
                   statusVars, startButton, summaryVars, placeVars,
                   pollIntervals, timerCount, movementLoops, produced,
                   applied>>

\* pollEvents, the callbacks of fetch('/api/state').  pollInterval is the
\* timer of the closure that sent the request.
StateResponse(r, result) ==
    /\ r \in requests
    /\ r.url = "/api/state"
    /\ requests' = requests \ {r}
    /\ handler' = "state"
    /\ IF result.ok
       THEN LET data == result.data
                loggedIn == data.logged_in /\ data.user # NoUser
                b    == UpdateLoginButtons(loggedIn, Buttons)
                info == RegionInfo(data.current_region, data.position)
            IN  /\ received' = Received(data, r.timer, r.n, "")
                /\ pollIntervals' = ClearInterval(r.timer, data)
                /\ startButton' =
                      IF data.status \in Terminal
                      THEN [disabled |-> FALSE,
                            textContent |-> "Restart Simulation"]
                      ELSE startButton
                /\ loginStatus' =
                      IF loggedIn THEN "Logged in"
                      ELSE IF data.status = "completed" THEN "Logged out"
                      ELSE "Not logged in"
                /\ userName' = IF loggedIn THEN data.user[1].name ELSE ""
                /\ userId' = IF loggedIn THEN data.user[1].id ELSE ""
                /\ loginButton' = b.login
                /\ logoutButton' = b.logout
                /\ IF data.current_region # NoRegion
                   THEN /\ regionName' = info.name
                        /\ regionPosition' = info.position
                        /\ avatarPosition' =
                              IF data.position # NoPosition
                              THEN ScenePosition(data.position)
                              ELSE avatarPosition
                   ELSE UNCHANGED <<regionName, regionPosition,
                                    avatarPosition>>
       ELSE /\ received' = Received(NoData, r.timer, r.n, "rejected")
            /\ UNCHANGED <<pollIntervals, startButton, summaryVars,
                           loginButton, logoutButton, regionName,
                           regionPosition, avatarPosition>>
    /\ UNCHANGED <<objectVars, kindVars, viewVars, systemLog, systemLogDeclared,
                   chatMessages,
                   statusIndicator, avatarMarker, timerCount, movementLoops,
                   ticks, serverVars>>

\* pollEvents, the callbacks of fetch('/api/events').  An exception of
\* processEvent rejects the promise of then, and the catch writes it to the
\* console.
EventsResponse(r, result) ==
    /\ r \in requests
    /\ r.url = "/api/events"
    /\ requests' = requests \ {r}
    /\ handler' = "events"
    /\ IF result.ok
       THEN LET d == ProcessEvents(r.batch,
                        [loginStatus |-> loginStatus, buttons |-> Buttons,
                         log |-> systemLog])
            IN  /\ Len(systemLog) + Len(r.batch) <= MaxLog
                /\ received' = Received(NoData, r.timer, r.n,
                                        IF FirstThrow(r.batch) = 0 THEN ""
                                        ELSE "TypeError")
                /\ loginStatus' = d.loginStatus
                /\ loginButton' = d.buttons.login
                /\ logoutButton' = d.buttons.logout
                /\ systemLog' = d.log
                /\ applied' = applied \o SeqNumbers(Handed(r.batch))
       ELSE /\ received' = Received(NoData, r.timer, r.n, "rejected")
            /\ UNCHANGED <<loginStatus, loginButton, logoutButton, systemLog,
                           applied>>
    /\ UNCHANGED <<objectVars, kindVars, viewVars, systemLogDeclared, chatMessages,
                   statusIndicator,
                   startButton, userName, userId, placeVars, timerVars,
                   serverEvents, produced>>

\* handleLogin (click on #login-button, which must be shown and enabled)
HandleLogin ==
    LET b == StatusButtons("logging_in", Buttons)
    IN  /\ ~loginButton.disabled
        /\ loginButton.display = "block"
        /\ ~InFlight("/api/login")
        /\ Len(systemLog) < MaxLog
        /\ statusIndicator' = StatusIndicator("logging_in")
        /\ loginButton' = b.login
        /\ logoutButton' = b.logout
        /\ systemLog' = Append(systemLog,
                               Line("Logging in to Kitely...", <<>>, "info"))
        /\ requests' = requests \cup {Request("/api/login", NoTimer, 0, <<>>)}
        /\ handler' = "handleLogin"
        /\ received' = Received(NoData, NoTimer, 0, "")
        /\ UNCHANGED <<objectVars, kindVars, viewVars, systemLogDeclared, chatMessages,
                       startButton,
                       summaryVars, placeVars, timerVars, serverVars>>

\* handleLogin, the callbacks of fetch('/api/login')
LoginResponse(r, result) ==
    LET success == result.ok /\ result.data.success
        status  == IF success THEN "logged_in" ELSE "error"
        b       == UpdateLoginButtons(success, StatusButtons(status, Buttons))
        named   == success /\ result.data.user # NoUser
    IN  /\ r \in requests
        /\ r.url = "/api/login"
        /\ Len(systemLog) < MaxLog
        /\ requests' = requests \ {r}
        /\ statusIndicator' = StatusIndicator(status)
        /\ loginButton' = b.login
        /\ logoutButton' = b.logout
        /\ loginStatus' = IF success THEN "Logged in" ELSE loginStatus
        /\ userName' = IF named THEN result.data.user[1].name ELSE userName
        /\ userId' = IF named THEN result.data.user[1].id ELSE userId
        /\ systemLog' = Append(systemLog,
              IF success
              THEN Line("Successfully logged in to Kitely", <<>>, "info")
              ELSE IF result.ok
              THEN Line("Login failed: ${data.message || 'Unknown error'}",
                        <<>>, "error")
              ELSE Line("Login error: ${error.message}", <<>>, "error"))
        /\ handler' = "login"
        /\ received' = Received(result.data, NoTimer, 0,
                                IF result.ok THEN "" ELSE "rejected")
        /\ UNCHANGED <<objectVars, kindVars, viewVars, systemLogDeclared, chatMessages,
                       startButton,
                       placeVars, timerVars, serverVars>>

\* handleLogout (click on #logout-button, which must be shown and enabled)
HandleLogout ==
    LET b == StatusButtons("logging_out", Buttons)
    IN  /\ ~logoutButton.disabled
        /\ logoutButton.display = "block"
        /\ ~InFlight("/api/logout")
        /\ Len(systemLog) < MaxLog
        /\ statusIndicator' = StatusIndicator("logging_out")
        /\ loginButton' = b.login
        /\ logoutButton' = b.logout
        /\ systemLog' = Append(systemLog,
                               Line("Logging out from Kitely...", <<>>, "info"))
        /\ requests' = requests \cup {Request("/api/logout", NoTimer, 0, <<>>)}
        /\ handler' = "handleLogout"
        /\ received' = Received(NoData, NoTimer, 0, "")
        /\ UNCHANGED <<objectVars, kindVars, viewVars, systemLogDeclared, chatMessages,
                       startButton,
                       summaryVars, placeVars, timerVars, serverVars>>

\* handleLogout, the callbacks of fetch('/api/logout')
LogoutResponse(r, result) ==
    LET success == result.ok /\ result.data.success
        status  == IF success THEN "completed" ELSE "error"
        after   == StatusButtons(status, Buttons)
        b       == IF success THEN UpdateLoginButtons(FALSE, after) ELSE after
    IN  /\ r \in requests
        /\ r.url = "/api/logout"
        /\ Len(systemLog) < MaxLog
        /\ requests' = requests \ {r}
        /\ statusIndicator' = StatusIndicator(status)
        /\ loginButton' = b.login
        /\ logoutButton' = b.logout
        /\ loginStatus' = IF success THEN "Logged out" ELSE loginStatus
        /\ userName' = IF success THEN "" ELSE userName
        /\ userId' = IF success THEN "" ELSE userId
        /\ systemLog' = Append(systemLog,
              IF success
              THEN Line("Successfully logged out from Kitely", <<>>, "info")
              ELSE IF result.ok
              THEN Line("Logout failed: ${data.message || 'Unknown error'}",
                        <<>>, "error")
              ELSE Line("Logout error: ${error.message}", <<>>, "error"))
        /\ handler' = "logout"
        /\ received' = Received(result.data, NoTimer, 0,
                                IF result.ok THEN "" ELSE "rejected")
        /\ UNCHANGED <<objectVars, kindVars, viewVars, systemLogDeclared, chatMessages,
                       startButton,
                       placeVars, timerVars, serverVars>>

----------------------------------------------------------------------------
(* AvatarManager: the avatar is a THREE.Group of fourteen meshes built from *)
(* the appearance settings.  Lengths are in 1/One units, angles in          *)
(* quarter turns, metalness and roughness in tenths.                        *)

One == 10000
Pi == 2

\* the defaults of THREE.MeshStandardMaterial (three.js r128)
DefaultMetalness == 0
DefaultRoughness == 10

\* the settings the constructor starts with
DefaultAppearance ==
    [height |-> One, bodyShape |-> "athletic",
     skinColor |-> <<15, 2, 13, 2, 11, 13>>,
     hairStyle |-> "short", hairColor |-> <<5, 2, 3, 11, 2, 2>>,
     outfitStyle |-> "casual",
     outfitPrimaryColor |-> <<3, 15, 5, 1, 11, 5>>,
     outfitSecondaryColor |-> <<15, 4, 4, 3, 3, 6>>]

\* an argument of updateAppearance: a field is <<v>>, or <<>> if undefined
Unchanged ==
    [height |-> <<>>, bodyShape |-> <<>>, skinColor |-> <<>>,
     hairStyle |-> <<>>, hairColor |-> <<>>, outfitStyle |-> <<>>,
     outfitPrimaryColor |-> <<>>, outfitSecondaryColor |-> <<>>]

\* what the appearance form and a clothing drop pass, and one unrecognized
\* value of each of the three enumerations
AppearanceInputs ==
    { [Unchanged EXCEPT !.outfitStyle = <<"casual">>,
                        !.outfitPrimaryColor = << <<10, 11, 12, 13>> >>,
                        !.outfitSecondaryColor = << <<0, 0, 9, 6, 8, 8>> >>],
      [height |-> <<15000>>, bodyShape |-> <<"slim">>,
       skinColor |-> << <<15, 2, 13, 2, 11, 13>> >>,
       hairStyle |-> <<"ponytail">>, hairColor |-> << <<5, 2, 3, 11, 2, 2>> >>,
       outfitStyle |-> <<"formal">>,
       outfitPrimaryColor |-> << <<3, 15, 5, 1, 11, 5>> >>,
       outfitSecondaryColor |-> << <<15, 4, 4, 3, 3, 6>> >>],
      [Unchanged EXCEPT !.bodyShape = <<"heavy">>, !.hairStyle = <<"long">>,
                        !.outfitStyle = <<"fantasy">>],
      [Unchanged EXCEPT !.bodyShape = <<"giant">>],
      [Unchanged EXCEPT !.hairStyle = <<"mohawk">>],
      [Unchanged EXCEPT !.outfitStyle = <<"armor">>] }

PositionInputs == { Vec(0, 0, 0), Vec(128, 22, 64) }

\* new THREE.Color(string)
Color(digits) == SetStyle(digits, White)

Geometry(type, args) == [type |-> type, args |-> args]

StandardMaterial(color, metalness, roughness) ==
    [type |-> "MeshStandardMaterial", color |-> color,
     metalness |-> metalness, roughness |-> roughness]

BasicMaterial(color) ==
    [type |-> "MeshBasicMaterial", color |-> color,
     metalness |-> 0, roughness |-> 0]

\* new THREE.Mesh(geometry, material) with its position, rotation.x and
\* castShadow as the builder leaves them
Part(name, geometry, material, position, rotation, castShadow) ==
    [name |-> name, geometry |-> geometry, material |-> material,
     position |-> position, rotation |-> rotation,
     castShadow |-> castShadow]

HairGeometry(hairStyle) ==
    CASE hairStyle = "short" ->
            Geometry("Sphere", <<2700, 32, 32, 0, 2 * Pi, 0, Pi \div 2>>)
      [] hairStyle = "ponytail" ->
            Geometry("Cylinder", <<500, 1000, 4000, 16>>)
      [] hairStyle = "long" ->
            Geometry("Cylinder", <<2500, 1500, 6000, 16>>)
      [] OTHER ->
            Geometry("Sphere", <<2700, 32, 32, 0, 2 * Pi, 0, Pi \div 2>>)

\* the if / else if chain that places the hair: it has no final else
HairPosition(hairStyle, h) ==
    IF hairStyle = "short" THEN Vec(0, (16 * h) \div 10 + 300, 0)
    ELSE IF hairStyle = "ponytail" THEN Vec(0, (16 * h) \div 10 + 500, -2000)
    ELSE IF hairStyle = "long" THEN Vec(0, (145 * h) \div 100, 0)
    ELSE Vec(0, 0, 0)

HairRotation(hairStyle) == IF hairStyle = "short" THEN Pi ELSE 0

CreateHeadNoHairByDefault(a) ==
    LET h == a.height
    IN  << Part("head", Geometry("Sphere", <<2500, 32, 32>>),
                StandardMaterial(Color(a.skinColor), DefaultMetalness,
                                 DefaultRoughness),
                Vec(0, (16 * h) \div 10, 0), 0, TRUE) >>
        \o (IF a.hairStyle \in {"short", "ponytail", "long"}
            THEN << Part("hair", HairGeometry(a.hairStyle),
                         StandardMaterial(Color(a.hairColor),
                                          DefaultMetalness, DefaultRoughness),
                         HairPosition(a.hairStyle, h),
                         HairRotation(a.hairStyle), TRUE) >>
            ELSE << >>)
        \o << Part("leftEye", Geometry("Sphere", <<500, 16, 16>>),
                   BasicMaterial(4473924),
                   Vec(-1000, (163 * h) \div 100, 2000), 0, FALSE),
              Part("rightEye", Geometry("Sphere", <<500, 16, 16>>),
                   BasicMaterial(4473924),
                   Vec(1000, (163 * h) \div 100, 2000), 0, FALSE),
              Part("mouth", Geometry("Box", <<1000, 300, 300>>),
                   BasicMaterial(13395558),
                   Vec(0, (153 * h) \div 100, 2200), 0, FALSE) >>

CreateHead(a) ==
    LET h == a.height
    IN  << Part("head", Geometry("Sphere", <<2500, 32, 32>>),
                StandardMaterial(Color(a.skinColor), DefaultMetalness,
                                 DefaultRoughness),
                Vec(0, (16 * h) \div 10, 0), 0, TRUE),
           Part("hair", HairGeometry(a.hairStyle),
                StandardMaterial(Color(a.hairColor), DefaultMetalness,
                                 DefaultRoughness),
                HairPosition(a.hairStyle, h), HairRotation(a.hairStyle),
                TRUE),
           Part("leftEye", Geometry("Sphere", <<500, 16, 16>>),
                BasicMaterial(4473924),
                Vec(-1000, (163 * h) \div 100, 2000), 0, FALSE),
           Part("rightEye", Geometry("Sphere", <<500, 16, 16>>),
                BasicMaterial(4473924),
                Vec(1000, (163 * h) \div 100, 2000), 0, FALSE),
           Part("mouth", Geometry("Box", <<1000, 300, 300>>),
                BasicMaterial(13395558),
                Vec(0, (153 * h) \div 100, 2200), 0, FALSE) >>

TorsoSize(bodyShape) ==
    CASE bodyShape = "athletic" -> [width |-> 5000, depth |-> 2500]
      [] bodyShape = "slim" -> [width |-> 4000, depth |-> 2000]
      [] bodyShape = "heavy" -> [width |-> 6000, depth |-> 3500]
      [] OTHER -> [width |-> 5000, depth |-> 2500]

TorsoMaterial(outfitStyle, color) ==
    CASE outfitStyle = "casual" ->
            StandardMaterial(color, DefaultMetalness, DefaultRoughness)
      [] outfitStyle = "formal" -> StandardMaterial(color, 3, 7)
      [] outfitStyle = "fantasy" -> StandardMaterial(color, 5, 5)
      [] OTHER -> StandardMaterial(color, DefaultMetalness, DefaultRoughness)

CreateTorso(a) ==
    LET size == TorsoSize(a.bodyShape)
    IN  << Part("torso",
                Geometry("Box", <<size.width, (6 * a.height) \div 10,
                                  size.depth>>),
                TorsoMaterial(a.outfitStyle, Color(a.outfitPrimaryColor)),
                Vec(0, (12 * a.height) \div 10, 0), 0, TRUE) >>

ArmThickness(bodyShape) ==
    CASE bodyShape = "athletic" -> 1200
      [] bodyShape = "slim" -> 1000
      [] bodyShape = "heavy" -> 1500
      [] OTHER -> 1200

CreateArms(a) ==
    LET h == a.height
        t == ArmThickness(a.bodyShape)
        arm  == StandardMaterial(Color(a.outfitSecondaryColor),
                                 DefaultMetalness, DefaultRoughness)
        hand == StandardMaterial(Color(a.skinColor), DefaultMetalness,
                                 DefaultRoughness)
        box  == Geometry("Box", <<t, (6 * h) \div 10, t>>)
        ball == Geometry("Sphere", <<(8 * t) \div 10, 16, 16>>)
    IN  << Part("leftArm", box, arm,
                Vec(-3000 - t \div 2, (12 * h) \div 10, 0), 0, TRUE),
           Part("rightArm", box, arm,
                Vec(3000 + t \div 2, (12 * h) \div 10, 0), 0, TRUE),
           Part("leftHand", ball, hand,
                Vec(-3000 - t \div 2, (9 * h) \div 10, 0), 0, TRUE),
           Part("rightHand", ball, hand,
                Vec(3000 + t \div 2, (9 * h) \div 10, 0), 0, TRUE) >>

LegThickness(bodyShape) ==
    CASE bodyShape = "athletic" -> 1500
      [] bodyShape = "slim" -> 1200
      [] bodyShape = "heavy" -> 1800
      [] OTHER -> 1500

CreateLegs(a) ==
    LET h == a.height
        t == LegThickness(a.bodyShape)
        leg  == StandardMaterial(Color(a.outfitSecondaryColor),
                                 DefaultMetalness, DefaultRoughness)
        shoe == StandardMaterial(2236962, DefaultMetalness, DefaultRoughness)
        box  == Geometry("Box", <<t, (9 * h) \div 10, t>>)
        last == Geometry("Box", <<(12 * t) \div 10, t \div 2,
                                  (15 * t) \div 10>>)
    IN  << Part("leftLeg", box, leg,
                Vec(-1500, (45 * h) \div 100, 0), 0, TRUE),
           Part("rightLeg", box, leg,
                Vec(1500, (45 * h) \div 100, 0), 0, TRUE),
           Part("leftShoe", last, shoe, Vec(-1500, t \div 4, t \div 4), 0,
                TRUE),
           Part("rightShoe", last, shoe, Vec(1500, t \div 4, t \div 4), 0,
                TRUE) >>

\* the children createAvatar adds to the new group, in order
CreateAvatar(a) ==
    CreateHead(a) \o CreateTorso(a) \o CreateArms(a) \o CreateLegs(a)

MergeOntoDefaults(a, update) ==
    [f \in DOMAIN a |->
        IF update[f] # <<>> THEN update[f][1] ELSE DefaultAppearance[f]]

\* the settings after updateAppearance(update)
Merge(a, update) ==
    [f \in DOMAIN a |-> IF update[f] # <<>> THEN update[f][1] ELSE a[f]]

\* scene.remove(this.avatar) and scene.add of the new group
ReplaceRootKeepsOld(roots, old, new) == roots \cup {new}

ReplaceRoot(roots, old, new) == (roots \ {old}) \cup {new}

\* a THREE.Group as createAvatar leaves it
Group(a) == [appearance |-> a, children |-> CreateAvatar(a)]

\* AvatarManager once its constructor has run: init() has built the avatar
\* from the default settings
AvatarLoaded ==
    /\ appearance = DefaultAppearance
    /\ avatarCount = 1
    /\ avatar = 1
    /\ avatarHeap = << Group(DefaultAppearance) >>
    /\ sceneAvatars = {1}

\* AvatarManager.updateAppearance(update): the settings are merged and
\* createAvatar builds a new group, whose position is the origin
UpdateAppearance(update) ==
    LET merged == Merge(appearance, update)
        root   == avatarCount + 1
    IN  /\ avatarCount < MaxBuilds
        /\ appearance' = merged
        /\ avatarCount' = root
        /\ avatar' = root
        /\ avatarHeap' = Append(avatarHeap, Group(merged))
        /\ sceneAvatars' = ReplaceRoot(sceneAvatars, avatar, root)
        /\ avatarPosition' = Vec(0, 0, 0)
        /\ handler' = "updateAppearance"
        /\ received' = Received(update, NoTimer, 0, "")
        /\ UNCHANGED <<objectVars, kindVars, systemLog, systemLogDeclared,
                       chatMessages,
                       statusVars, startButton, summaryVars, regionName,
                       regionPosition, avatarMarker, timerVars, requests,
                       serverVars, lastTime, frameVars, terrainVars>>

\* AvatarManager.setPosition(x, y, z)
SetPosition(position) ==
    /\ avatarPosition' = IF avatar # Null THEN position ELSE avatarPosition
    /\ handler' = "setPosition"
    /\ received' = Received(NoData, NoTimer, 0, "")
    /\ UNCHANGED <<objectVars, kindVars, systemLog, systemLogDeclared,
                   chatMessages,
                   statusVars, startButton, summaryVars, regionName,
                   regionPosition, avatarMarker, timerVars, requests,
                   serverVars, viewVars>>

----------------------------------------------------------------------------
(* TerrainManager: the height of a vertex is three octaves of              *)
(* SimplexNoise.noise2D, scaled by maxHeight.  Noise values are in 1/One,   *)
(* heights in 1/(10 * One).                                                 *)

\* the vertex coordinates and the values of maxHeight heights are computed
\* for
CoordInputs == [x : {-50, 0, 50}, z : {-50, 50}]
MaxHeightInputs == {10, 5}

\* Math.sin(X * 0.3 + Y * 0.7) * Math.cos(X * 0.7 + Y * 0.3), rounded to
\* 1/One, for the lattice cells the vertices above fall in
SinCos ==
    (<<0, 0>> :> 0) @@ (<<0, 2>> :> 8133) @@ (<<0, 5>> :> -248)
    @@ (<<0, 251>> :> -2261) @@ (<<0, 254>> :> 6644) @@ (<<0, 255>> :> 2442)
    @@ (<<2, 2>> :> -3784) @@ (<<2, 254>> :> -3667) @@ (<<5, 5>> :> -2720)
    @@ (<<5, 251>> :> -9232) @@ (<<251, 5>> :> -760) @@ (<<251, 251>> :> -3045)
    @@ (<<254, 2>> :> -6325) @@ (<<254, 254>> :> -4032) @@ (<<255, 0>> :> -7506)
    @@ (<<255, 255>> :> 4367)

\* Math.floor(x * num / den) & 255
Cell(x, num, den) == ((x * num) \div den) % 256

\* a noise2D whose value depends on the instance, as that of a generator
\* seeded at construction does
Noise2DSeeded(simplex, x, y, num, den) ==
    (SinCos[<<Cell(x, num, den), Cell(y, num, den)>>] * simplex) % One

\* SimplexNoise.noise2D(x * num / den, y * num / den) of the instance
\* simplex: the instance has no fields, and xf and yf are not used
Noise2D(simplex, x, y, num, den) ==
    SinCos[<<Cell(x, num, den), Cell(y, num, den)>>]

\* the body of the loop of generateHeightMap for the vertex (x, z)
Height(simplex, x, z, maxHeight) ==
    ( 6 * Noise2D(simplex, x, z, 1, 100)
      + 3 * Noise2D(simplex, x, z, 4, 100)
      + 1 * Noise2D(simplex, x, z, 1, 10) ) * maxHeight

NoHeight == [simplex |-> 0, x |-> 0, z |-> 0, maxHeight |-> 0]

\* before the TerrainManager is made, 200 ms after the scene
TerrainLoaded ==
    /\ simplexCount = 0
    /\ heightCalls = 0
    /\ heightIn = NoHeight
    /\ heightOut = 0
    /\ heights = <<>>

\* new SimplexNoise(), the first statement of generateHeightMap
NewSimplexNoise ==
    /\ simplexCount < MaxNoise
    /\ simplexCount' = simplexCount + 1
    /\ handler' = "generateHeightMap"
    /\ received' = Received(NoData, NoTimer, 0, "")
    /\ UNCHANGED <<objectVars, kindVars, systemLog, systemLogDeclared,
                   chatMessages,
                   statusVars, startButton, summaryVars, placeVars,
                   timerVars, requests, serverVars, lastTime, frameVars,
                   avatarVars, heightCalls, heightIn, heightOut, heights>>

\* one pass of the loop of generateHeightMap: the height of the vertex
\* (x, z) from the instance simplex.  heights keeps, for every input, the
\* value that was computed for it first.
HeightStep(simplex, x, z, maxHeight) ==
    LET key == <<x, z, maxHeight>>
        out == Height(simplex, x, z, maxHeight)
    IN  /\ heightCalls < MaxHeights
        /\ heightCalls' = heightCalls + 1
        /\ heightIn' = [simplex |-> simplex, x |-> x, z |-> z,
                        maxHeight |-> maxHeight]
        /\ heightOut' = out
        /\ heights' = IF key \in DOMAIN heights THEN heights
                      ELSE heights @@ (key :> [value |-> out,
                                               simplex |-> simplex,
                                               call |-> heightCalls + 1])
        /\ handler' = "height"
        /\ received' = Received(NoData, NoTimer, 0, "")
        /\ UNCHANGED <<objectVars, kindVars, systemLog, systemLogDeclared,
                       chatMessages,
                       statusVars, startButton, summaryVars, placeVars,
                       timerVars, requests, serverVars, lastTime, frameVars,
                       avatarVars, simplexCount>>

----------------------------------------------------------------------------
(* Animation frames: the render loop of SceneManager.animate and the frame  *)
(* loops of startMovementLoop.  The browser runs every pending callback of  *)
(* requestAnimationFrame in one frame and hands each the same timestamp.    *)

\* moveSpeed, in units per second, and the milliseconds of a second
MoveSpeed == 5
Millis == 1000

Controls == {"forward", "backward", "left", "right", "up", "down"}

NoControls == [c \in Controls |-> FALSE]

\* the buttons pressed and the times between two frames, in ms
MoveInputs == {"forward", "right"}
FrameInputs == {200, 400}

\* the sizes of the container after a resize of the window
ResizeInputs == { <<800, 600>>, <<1024, 768>> }

\* SceneManager.animate run by each pending callback: it asks for one more
\* frame and renders once
AnimateNoSuccessor(pending) == [pending |-> 0, rendered |-> pending]

Animate(pending) == [pending |-> pending, rendered |-> pending]

\* moveAvatar(time) of the loop whose lastTime is last: the six tests of
\* movementControls applied to a clone of the avatar's position
MoveAvatar(position, last, time, controls) ==
    LET step == (MoveSpeed * (time - last)) \div Millis
        z1 == IF controls.forward THEN position.z - step ELSE position.z
        z2 == IF controls.backward THEN z1 + step ELSE z1
        x1 == IF controls.left THEN position.x - step ELSE position.x
        x2 == IF controls.right THEN x1 + step ELSE x1
        y1 == IF controls.up THEN position.y + step ELSE position.y
        y2 == IF controls.down THEN y1 - step ELSE y1
    IN  Vec(x2, y2, z2)

\* the callbacks of all movement loops, in the order the loops were started
RECURSIVE MoveLoops(_, _, _, _)
MoveLoops(position, times, time, controls) ==
    IF times = <<>> THEN position
    ELSE MoveLoops(MoveAvatar(position, Head(times), time, controls),
                   Tail(times), time, controls)

\* the view once SceneManager.init has run: animate() was called once, has
\* rendered once and left one callback pending; no button is held
ViewLoaded ==
    /\ movementControls = NoControls
    /\ lastTime = <<>>
    /\ now = 0
    /\ frames = 0
    /\ renderPending = 1
    /\ rendered = 1
    /\ rendererSize = <<800, 600>>
    /\ AvatarLoaded
    /\ TerrainLoaded

\* mousedown on a move-* button
MoveMouseDown(control) ==
    /\ movementControls' = [movementControls EXCEPT ![control] = TRUE]
    /\ handler' = "mousedown"
    /\ received' = Received(NoData, NoTimer, 0, "")
    /\ UNCHANGED <<objectVars, kindVars, systemLog, systemLogDeclared,
                   chatMessages,
                   statusVars, startButton, summaryVars, placeVars,
                   timerVars, requests, serverVars, lastTime, now, frames,
                   renderPending, rendered, rendererSize, avatarVars, terrainVars>>

\* mouseup on a move-* button
MoveMouseUp(control) ==
    /\ movementControls' = [movementControls EXCEPT ![control] = FALSE]
    /\ handler' = "mouseup"
    /\ received' = Received(NoData, NoTimer, 0, "")
    /\ UNCHANGED <<objectVars, kindVars, systemLog, systemLogDeclared,
                   chatMessages,
                   statusVars, startButton, summaryVars, placeVars,
                   timerVars, requests, serverVars, lastTime, now, frames,
                   renderPending, rendered, rendererSize, avatarVars, terrainVars>>

\* SceneManager.onWindowResize: the renderer takes the size of the container
OnWindowResize(size) ==
    /\ rendererSize' = size
    /\ handler' = "onWindowResize"
    /\ received' = Received(NoData, NoTimer, 0, "")
    /\ UNCHANGED <<objectVars, kindVars, systemLog, systemLogDeclared,
                   chatMessages,
                   statusVars, startButton, summaryVars, placeVars,
                   timerVars, requests, serverVars, lastTime,
                   movementControls, now, frames, renderPending, rendered,
                   avatarVars, terrainVars>>

\* an animation frame dt ms after the previous one: animate renders, and
\* every movement loop runs moveAvatar with the frame's timestamp.
\* avatarManager, its avatar and sceneManager exist from 100 ms after the
\* page's load on.
AnimationFrame(dt) ==
    LET time     == now + dt
        moved    == /\ lastTime # <<>>
                    /\ \E c \in Controls : movementControls[c]
        position == MoveLoops(avatarPosition, lastTime, time,
                              movementControls)
        frame    == Animate(renderPending)
    IN  /\ frames < MaxFrames
        /\ frames' = frames + 1
        /\ now' = time
        /\ renderPending' = frame.pending
        /\ rendered' = frame.rendered
        /\ lastTime' = [i \in 1..Len(lastTime) |-> time]
        /\ IF moved
           THEN /\ avatarPosition' = position
                /\ avatarMarker' = MiniMapMarker(position.x, position.z)
                /\ regionPosition' = <<position.x, position.z, position.y>>
           ELSE UNCHANGED <<avatarPosition, avatarMarker, regionPosition>>
        /\ handler' = "frame"
        /\ received' = Received(NoData, NoTimer, 0, "")
        /\ UNCHANGED <<objectVars, kindVars, systemLog, systemLogDeclared,
                       chatMessages,
                       statusVars, startButton, summaryVars, regionName,
                       timerVars, requests, serverVars, movementControls,
                       rendererSize, avatarVars, terrainVars>>

----------------------------------------------------------------------------
(* The object world *)

Init ==
    /\ nextObjectId = 1
    /\ objects = <<>>
    /\ heap = <<>>
    /\ meshCount = 0
    /\ smObjects = <<>>
    /\ sceneChildren = {}
    /\ selectedObject = Null
    /\ editDisabled = TRUE
    /\ deleteDisabled = TRUE
    /\ form = InitialForm
    /\ systemLog = <<>>
    /\ handler = "DOMContentLoaded"
    /\ dispatched = <<>>
    /\ issuedIds = <<>>
    /\ pointer = NoRay
    /\ kindIn = [type |-> "box", item |-> [name |-> "", type |-> "object"]]
    /\ kindOut = [call |-> "", value |-> ""]
    /\ systemLogDeclared = FALSE
    /\ Loaded
    /\ ViewLoaded

\* the presses on one mesh or on none
SingleRays ==
    { Ray([o \in DOMAIN heap |-> Miss], Miss) }
       \cup { Ray([o \in DOMAIN heap |-> IF o = n THEN 1 ELSE Miss], Miss) :
                 n \in {smObjects[i] : i \in 1..Len(smObjects)} }

Next ==
    \/ \E f \in FormInputs : InputForm(f)
    \/ \E c \in ColorInputs : InputColor(c)
    \/ CreateObjectFromUI
    \/ \E item \in ItemInputs, random \in RandomInputs :
          HandleObjectDrop(item, random)
    \/ \E ray \in SingleRays : OnMouseDown(ray)
    \/ EditSelectedObject
    \/ DeleteSelectedObject

Spec == Init /\ [][Next]_vars

----------------------------------------------------------------------------
(* Direct calls of createObject's geometry switch and of getTypeFromItem,   *)
(* on arbitrary kinds and item types                                        *)

InitKinds ==
    /\ nextObjectId = 1
    /\ objects = <<>>
    /\ heap = <<>>
    /\ meshCount = 0
    /\ smObjects = <<>>
    /\ sceneChildren = {}
    /\ selectedObject = Null
    /\ editDisabled = TRUE
    /\ deleteDisabled = TRUE
    /\ form = InitialForm
    /\ systemLog = <<>>
    /\ handler = "DOMContentLoaded"
    /\ dispatched = <<>>
    /\ issuedIds = <<>>
    /\ pointer = NoRay
    /\ kindIn \in [type : KindInputs,
                   item : [name : {"Item"}, type : ItemTypeInputs]]
    /\ kindOut = [geometry |-> "", type |-> ""]
    /\ systemLogDeclared = FALSE
    /\ Loaded
    /\ ViewLoaded

\* createObject(objectData) with objectData.type = kindIn.type: the geometry
\* of the mesh it builds
CallCreateObject ==
    /\ kindOut' = [kindOut EXCEPT !.geometry =
          NewMesh([ObjectDataFromUI(nextObjectId, form)
                      EXCEPT !.type = kindIn.type]).geometry]
    /\ UNCHANGED <<worldVars, kindIn, sessionVars, viewVars>>

\* getTypeFromItem(kindIn.item)
CallGetTypeFromItem ==
    /\ kindOut' = [kindOut EXCEPT !.type = GetTypeFromItem(kindIn.item)]
    /\ UNCHANGED <<worldVars, kindIn, sessionVars, viewVars>>

NextKinds == CallCreateObject \/ CallGetTypeFromItem

SpecKinds == InitKinds /\ [][NextKinds]_vars

----------------------------------------------------------------------------
(* The push channel alone: status_update and teleport events on the loaded  *)
(* page.  InitPush is the loaded page under either main script.             *)

InitPush ==
    /\ nextObjectId = 1
    /\ objects = <<>>
    /\ heap = <<>>
    /\ meshCount = 0
    /\ smObjects = <<>>
    /\ sceneChildren = {}
    /\ selectedObject = Null
    /\ editDisabled = TRUE
    /\ deleteDisabled = TRUE
    /\ form = InitialForm
    /\ systemLog = <<>>
    /\ handler = "DOMContentLoaded"
    /\ dispatched = <<>>
    /\ issuedIds = <<>>
    /\ pointer = NoRay
    /\ kindIn = [type |-> "box", item |-> [name |-> "", type |-> "object"]]
    /\ kindOut = [call |-> "", value |-> ""]
    /\ systemLogDeclared \in BOOLEAN
    /\ Loaded
    /\ ViewLoaded

NextPush ==
    \/ \E status \in StatusInputs : StatusUpdate([status |-> status])
    \/ \E data \in TeleportInputs : Teleport(data)

SpecPush == InitPush /\ [][NextPush]_vars

----------------------------------------------------------------------------
(* Polling of the state snapshot: start, timer ticks and the responses,     *)
(* while the server's event queue stays empty                               *)

\* how fetch('/api/state') and fetch('/api/events') settle
StateResults(snapshots) ==
    {[ok |-> TRUE, data |-> s] : s \in snapshots}
       \cup {[ok |-> FALSE, data |-> NoData]}

EventsResults == {[ok |-> TRUE], [ok |-> FALSE]}

NextPoll ==
    \/ StartSimulation
    \/ \E r \in requests, result \in StartResults : StartResponse(r, result)
    \/ \E timer \in pollIntervals : Tick(timer)
    \/ \E r \in requests, result \in StateResults(SnapshotInputs) :
          StateResponse(r, result)
    \/ \E r \in requests, result \in EventsResults :
          EventsResponse(r, result)

SpecPoll == InitPush /\ [][NextPoll]_vars

----------------------------------------------------------------------------
(* Inputs of the scenarios that follow a session with few inputs            *)

\* one teleport, one resize, one snapshot, frames 200 ms apart, and requests
\* that are answered
ViewTeleportInputs ==
    {d \in TeleportInputs : d.region = "Welcome" /\ d.position # NoPosition}
ViewResizeInputs == {size \in ResizeInputs : size # <<800, 600>>}
ViewSnapshotInputs ==
    {s \in SnapshotInputs : s.current_region = "Sandbox"}
ViewFrameInputs == {dt \in FrameInputs : dt = 200}
ViewStartResults == {result \in StartResults : result.data.success}
ViewStateResults ==
    {result \in StateResults(ViewSnapshotInputs) : result.ok}

\* event fetches that are answered, and the move-forward button
EventsFulfilled == {result \in EventsResults : result.ok}
ForwardInputs == {control \in MoveInputs : control = "forward"}

----------------------------------------------------------------------------
(* Polling of the event queue: the server queues events, and every          *)
(* snapshot is the same snapshot of a session that goes on                  *)

EventsSnapshotInputs == {s \in SnapshotInputs : s.status = "logging_out"}

NextEvents ==
    \/ StartSimulation
    \/ \E r \in requests, result \in StartResults : StartResponse(r, result)
    \/ \E event \in EventInputs : ServerEvent(event)
    \/ \E timer \in pollIntervals : Tick(timer)
    \/ \E r \in requests, result \in StateResults(EventsSnapshotInputs) :
          StateResponse(r, result)
    \/ \E r \in requests, result \in EventsResults :
          EventsResponse(r, result)

SpecEvents == InitPush /\ [][NextEvents]_vars

----------------------------------------------------------------------------
(* The two channels: the push channel delivers teleports and chat messages, *)
(* and the server queues the events of the same happenings for /api/events  *)


NextQueue ==
    \/ StartSimulation
    \/ \E r \in requests, result \in ViewStartResults :
          StartResponse(r, result)
    \/ \E data \in ViewTeleportInputs : Teleport(data)
    \/ \E data \in ChatInputs : ChatMessage(data)
    \/ \E event \in QueueInputs : ServerEvent(event)
    \/ \E timer \in pollIntervals : Tick(timer)
    \/ \E r \in requests, result \in EventsFulfilled :
          EventsResponse(r, result)

SpecQueue == InitPush /\ [][NextQueue]_vars

----------------------------------------------------------------------------
(* Batches: the server queues well-formed and malformed events, and the     *)
(* polling timer fetches them                                               *)


NextBatch ==
    \/ StartSimulation
    \/ \E r \in requests, result \in ViewStartResults :
          StartResponse(r, result)
    \/ \E event \in BatchInputs : ServerEvent(event)
    \/ \E timer \in pollIntervals : Tick(timer)
    \/ \E r \in requests, result \in EventsFulfilled :
          EventsResponse(r, result)

SpecBatch == InitPush /\ [][NextBatch]_vars

(* no timer ticks                                                           *)

NextLogin ==
    \/ StartSimulation
    \/ \E r \in requests, result \in StartResults : StartResponse(r, result)
    \/ \E status \in SessionStatusInputs : StatusUpdate([status |-> status])
    \/ HandleLogin
    \/ \E r \in requests, result \in LoginResults : LoginResponse(r, result)
    \/ HandleLogout
    \/ \E r \in requests, result \in LogoutResults : LogoutResponse(r, result)

SpecLogin == InitPush /\ [][NextLogin]_vars

----------------------------------------------------------------------------
(* Movement: a started session, the move-* buttons and animation frames     *)

NextMove ==
    \/ StartSimulation
    \/ \E r \in requests, result \in StartResults : StartResponse(r, result)
    \/ \E control \in MoveInputs : MoveMouseDown(control)
    \/ \E control \in MoveInputs : MoveMouseUp(control)
    \/ \E dt \in FrameInputs : AnimationFrame(dt)

SpecMove == InitPush /\ [][NextMove]_vars

----------------------------------------------------------------------------
(* Restarts: a session ends with a terminal snapshot and is started again,  *)
(* while move-forward is held and frames go by                              *)

RestartStateResults ==
    {result \in StateResults(SnapshotInputs) :
        result.ok /\ result.data.status = "completed"}

NextRestart ==
    \/ StartSimulation
    \/ \E r \in requests, result \in ViewStartResults :
          StartResponse(r, result)
    \/ \E timer \in pollIntervals : Tick(timer)
    \/ \E r \in requests, result \in RestartStateResults :
          StateResponse(r, result)
    \/ \E control \in ForwardInputs : MoveMouseDown(control)
    \/ \E dt \in ViewFrameInputs : AnimationFrame(dt)

SpecRestart == InitPush /\ [][NextRestart]_vars

----------------------------------------------------------------------------
(* The place of the avatar: the handlers that write the position display,   *)
(* the minimap marker and the avatar's position                             *)

PlaceStateResults ==
    {result \in StateResults(SnapshotInputs) :
        result.ok /\ result.data.position # NoPosition}

NextPlace ==
    \/ \E data \in ViewTeleportInputs : Teleport(data)
    \/ StartSimulation
    \/ \E r \in requests, result \in ViewStartResults :
          StartResponse(r, result)
    \/ \E timer \in pollIntervals : Tick(timer)
    \/ \E r \in requests, result \in PlaceStateResults :
          StateResponse(r, result)
    \/ \E control \in ForwardInputs : MoveMouseDown(control)
    \/ \E dt \in ViewFrameInputs : AnimationFrame(dt)

SpecPlace == InitPush /\ [][NextPlace]_vars

----------------------------------------------------------------------------
(* The avatar: updateAppearance and setPosition calls                       *)

NextAvatar ==
    \/ \E update \in AppearanceInputs : UpdateAppearance(update)
    \/ \E position \in PositionInputs : SetPosition(position)

SpecAvatar == InitPush /\ [][NextAvatar]_vars

----------------------------------------------------------------------------
(* Picking: objects are created and deleted, and the pointer is pressed     *)
(* with rays that meet several meshes, at equal or different distances      *)

Distances == {Miss, 1, 2}

Rays ==
    { Ray(mesh, scenery) : mesh \in [DOMAIN heap -> Distances],
                           scenery \in {Miss, 1} }

NextPick ==
    \/ CreateObjectFromUI
    \/ \E ray \in Rays : OnMouseDown(ray)
    \/ DeleteSelectedObject

SpecPick == Init /\ [][NextPick]_vars

----------------------------------------------------------------------------
(* The view: animation frames among the operations on the scene and the     *)
(* handlers that move the avatar                                            *)

NextView ==
    \/ CreateObjectFromUI
    \/ \E ray \in SingleRays : OnMouseDown(ray)
    \/ DeleteSelectedObject
    \/ \E size \in ViewResizeInputs : OnWindowResize(size)
    \/ \E data \in ViewTeleportInputs : Teleport(data)
    \/ StartSimulation
    \/ \E r \in requests, result \in ViewStartResults :
          StartResponse(r, result)
    \/ \E timer \in pollIntervals : Tick(timer)
    \/ \E r \in requests, result \in ViewStateResults :
          StateResponse(r, result)
    \/ \E dt \in ViewFrameInputs : AnimationFrame(dt)

SpecView == InitPush /\ [][NextView]_vars

----------------------------------------------------------------------------
(* The terrain: noise generators are made and heights are computed          *)

NextTerrain ==
    \/ NewSimplexNoise
    \/ \E simplex \in 1..simplexCount, v \in CoordInputs,
          maxHeight \in MaxHeightInputs :
          HeightStep(simplex, v.x, v.z, maxHeight)

SpecTerrain == Init /\ [][NextTerrain]_vars

----------------------------------------------------------------------------
(* Properties *)

Pickable == {smObjects[i] : i \in 1..Len(smObjects)}

RecordIds == {objects[i].id : i \in 1..Len(objects)}

Deleted(entry) == entry.template = "Deleted object with ID: ${objectId}"
Updated(entry) == entry.template = "Updated object with ID: ${objectId}"
Created(entry) == entry.template = "Created ${type} object with ID: ${id}"

LastLogged == systemLog[Len(systemLog)]

\* C1: registry records and pickable scene nodes correspond one to one by id:
\* every record has exactly one live pickable node carrying its id, every
\* pickable node has exactly one record, and the pickable nodes are exactly
\* the nodes in the scene.
C1_RecordsMatchNodes ==
    /\ \A j \in 1..Len(smObjects) : smObjects[j] \in DOMAIN heap
    /\ \A i \in 1..Len(objects) :
          Cardinality({j \in 1..Len(smObjects) :
                          heap[smObjects[j]].userData.id = objects[i].id}) = 1
    /\ \A j \in 1..Len(smObjects) :
          Cardinality({i \in 1..Len(objects) :
                          objects[i].id = heap[smObjects[j]].userData.id}) = 1
    /\ Cardinality(Pickable) = Len(smObjects)
    /\ sceneChildren = Pickable

\* C1 witness: two objects were made and one of them has been deleted
C1_Witness ==
    /\ handler = "deleteSelectedObject"
    /\ Len(systemLog) > 0 /\ Deleted(LastLogged)
    /\ Len(objects) = 1
    /\ Len(smObjects) = 1

\* C2: at most one node is highlighted, it is the selected one, the emissive
\* value saved for it is the value it had before it was selected, and every
\* node that is not selected carries its original emissive value.
C2_NoResidualHighlight ==
    /\ selectedObject # Null => selectedObject \in Pickable
    /\ \A h \in DOMAIN heap :
          IF h = selectedObject
          THEN /\ heap[h].emissive = Highlight
               /\ heap[h].currentHex = <<DefaultEmissive>>
          ELSE heap[h].emissive = DefaultEmissive

\* C2 witness: node 2 was selected while node 1 was selected
C2_Witness ==
    /\ handler = "onMouseDown"
    /\ DOMAIN heap = {1, 2}
    /\ selectedObject = 2
    /\ heap[1].currentHex # <<>>
    /\ heap[1].emissive = DefaultEmissive

\* C3: the edit and delete controls are enabled exactly when an object is
\* selected; after the selected object is deleted nothing is selected and
\* both controls are disabled.
C3_ControlsFollowSelection ==
    /\ editDisabled = (selectedObject = Null)
    /\ deleteDisabled = (selectedObject = Null)
    /\ handler = "deleteSelectedObject" =>
          selectedObject = Null /\ editDisabled /\ deleteDisabled

\* C3 witness: the selected object has just been deleted
C3_Witness ==
    /\ handler = "deleteSelectedObject"
    /\ Len(systemLog) > 0 /\ Deleted(LastLogged)
    /\ selectedObject = Null
    /\ editDisabled /\ deleteDisabled

\* C4 (as claimed): when the selected node is removed by a delete, the
\* deselection notification is emitted; the removal never clears the
\* selection silently.
C4_DeselectionFiresOnRemoval ==
    (handler = "deleteSelectedObject" /\ Len(systemLog) > 0
        /\ Deleted(LastLogged))
    => \E k \in 1..Len(dispatched) : dispatched[k].type = "objectDeselected"

\* C5 (as claimed): every change of the selection made by a pointer press
\* emits a notification for each affected node that carries that node: one
\* for the node that stops being selected and one for the node that becomes
\* selected.
C5_SelectionChangeNotified ==
    [][(handler' = "onMouseDown" /\ selectedObject' # selectedObject) =>
          /\ selectedObject # Null =>
                \E k \in 1..Len(dispatched') :
                    /\ dispatched'[k].type = "objectDeselected"
                    /\ dispatched'[k].detail = <<selectedObject>>
          /\ selectedObject' # Null =>
                \E k \in 1..Len(dispatched') :
                    /\ dispatched'[k].type = "objectSelected"
                    /\ dispatched'[k].detail = <<selectedObject'>>]_vars

\* C5 witness of the failing case: a press on empty space has deselected a node
C5_DeselectedByPress ==
    /\ handler = "onMouseDown"
    /\ selectedObject = Null
    /\ Len(dispatched) = 1
    /\ dispatched[1].type = "objectDeselected"

\* An edit that finds the selected node and its record
EditApplies ==
    /\ handler' = "editSelectedObject"
    /\ selectedObject # Null
    /\ FindIndex(objects, heap[selectedObject].userData.id) # 0

\* C6: editSelectedObject writes the form's scale, colour, transparency and
\* flags to the selected node and to its record alike, and leaves that
\* object's id, kind, position and rotation and every other node and record
\* as they were.
C6_EditAppliesToNodeAndRecord ==
    [][EditApplies =>
        LET object == selectedObject
            i      == FindIndex(objects, heap[object].userData.id)
            node   == heap'[object]
            record == objects'[i]
        IN  \* the edited fields, on the record and on the node
            /\ record.scale = Vec(form.size, form.size, form.size)
            /\ node.scale = record.scale
            /\ record.color = form.color
            /\ node.color = HexValue(record.color)
            /\ record.transparency = form.transparency
            /\ node.opacity = Unit - record.transparency
            /\ node.transparent = (record.transparency > 0)
            /\ record.isPhysical = form.physical
            /\ record.isPhantom = form.phantom
            /\ record.isTemporary = form.temporary
            /\ node.userData.isPhysical = record.isPhysical
            /\ node.userData.isPhantom = record.isPhantom
            /\ node.userData.isTemporary = record.isTemporary
            \* what the edit leaves alone on the edited object
            /\ record.id = objects[i].id
            /\ record.type = objects[i].type
            /\ record.position = objects[i].position
            /\ record.rotation = objects[i].rotation
            /\ node.userData.id = heap[object].userData.id
            /\ node.geometry = heap[object].geometry
            /\ node.position = heap[object].position
            /\ node.rotation = heap[object].rotation
            \* every other object
            /\ Len(objects') = Len(objects)
            /\ \A j \in 1..Len(objects) : j # i => objects'[j] = objects[j]
            /\ DOMAIN heap' = DOMAIN heap
            /\ \A h \in DOMAIN heap : h # object => heap'[h] = heap[h]
            /\ smObjects' = smObjects
            /\ sceneChildren' = sceneChildren]_vars

\* C6 witness: with two objects in the world, an edit has given the selected
\* one a size other than the size it was created with
C6_Witness ==
    /\ handler = "editSelectedObject"
    /\ Len(systemLog) > 0 /\ Updated(LastLogged)
    /\ Len(objects) = 2
    /\ selectedObject # Null
    /\ heap[selectedObject].scale.x # 2 * heap[selectedObject].position.y
    /\ \E i \in 1..Len(objects) :
          /\ objects[i].id = heap[selectedObject].userData.id
          /\ objects[i].scale = heap[selectedObject].scale

\* The form differs from the selected node in the colour alone
OnlyColourDiffers ==
    /\ form.size = heap[selectedObject].scale.x
    /\ form.transparency = Unit - heap[selectedObject].opacity
    /\ form.physical = heap[selectedObject].userData.isPhysical
    /\ form.phantom = heap[selectedObject].userData.isPhantom
    /\ form.temporary = heap[selectedObject].userData.isTemporary
    /\ HexValue(form.color) # heap[selectedObject].color

\* C7: createObjectFromUI with kind k and size s adds exactly one record of
\* kind k and scale (s,s,s) and exactly one pickable node with the same fresh
\* id and leaves the existing objects unchanged; in a world whose only
\* object was created from the UI, an edit of the colour alone leaves record
\* and node with the new colour and the old scale (s,s,s), and the delete
\* that follows leaves an empty registry and no pickable node.
C7_CreateEditDelete ==
    [][/\ handler' = "createObjectFromUI" =>
            LET record == objects'[Len(objects')]
                object == smObjects'[Len(smObjects')]
            IN  /\ objects' = Append(objects, record)
                /\ record.type = form.primType
                /\ record.scale = Vec(form.size, form.size, form.size)
                /\ smObjects' = Append(smObjects, object)
                /\ object \notin Pickable
                /\ DOMAIN heap' = DOMAIN heap \cup {object}
                /\ \A h \in DOMAIN heap : heap'[h] = heap[h]
                /\ heap'[object].userData.id = record.id
                /\ heap'[object].scale = record.scale
                /\ record.id \notin RecordIds
                /\ \A h \in DOMAIN heap : heap[h].userData.id # record.id
       /\ (EditApplies /\ OnlyColourDiffers /\ Len(systemLog) = 1
              /\ Created(systemLog[1])) =>
            /\ Len(objects') = 1
            /\ objects'[1].color = form.color
            /\ heap'[selectedObject].color = HexValue(form.color)
            /\ objects'[1].scale = objects[1].scale
            /\ objects'[1].scale.x = 2 * objects'[1].position.y
            /\ heap'[selectedObject].scale = objects'[1].scale
       /\ (handler' = "deleteSelectedObject" /\ selectedObject # Null
              /\ Len(systemLog) = 2 /\ Created(systemLog[1])
              /\ Updated(systemLog[2])) =>
            /\ objects' = <<>>
            /\ smObjects' = <<>>
            /\ sceneChildren' = {}]_vars

\* C7 witness: one sphere of size 2 was created, selected, given another
\* colour through the colour picker alone, and deleted
C7_Witness ==
    /\ handler = "deleteSelectedObject"
    /\ Len(systemLog) = 3
    /\ Created(systemLog[1]) /\ systemLog[1].type = "sphere"
    /\ Updated(systemLog[2])
    /\ Deleted(systemLog[3])
    /\ form.color \in ColorInputs
    /\ form.size = 40
    /\ objects = <<>>
    /\ smObjects = <<>>

\* C8: every id handed out is a positive integer different from every id
\* handed out before it, also from the ids of objects deleted since; the ids
\* on records and nodes are ids that were handed out; and a node keeps its id,
\* and its record, until it is deleted.
C8_IdsUniqueAndStable ==
    /\ [](/\ \A k \in 1..Len(issuedIds) :
                /\ issuedIds[k] \in Nat \ {0}
                /\ \A m \in 1..(k - 1) : issuedIds[m] # issuedIds[k]
          /\ \A i \in 1..Len(objects) :
                \E k \in 1..Len(issuedIds) : issuedIds[k] = objects[i].id
          /\ \A h \in DOMAIN heap :
                \E k \in 1..Len(issuedIds) : issuedIds[k] = heap[h].userData.id)
    /\ [][\A h \in DOMAIN heap \cap DOMAIN heap' :
             /\ heap'[h].userData.id = heap[h].userData.id
             /\ heap[h].userData.id \in RecordIds =>
                   heap'[h].userData.id \in RecordIds']_vars

\* C8 witness: two ids were handed out and the object with the first is gone
C8_Witness ==
    /\ issuedIds = <<1, 2>>
    /\ Len(objects) = 1
    /\ objects[1].id = 2
    /\ Len(systemLog) > 0 /\ Deleted(LastLogged)

C10_UnknownFallsBackToBox ==
    /\ (kindOut.geometry # ""
          /\ kindIn.type \notin {"box", "sphere", "cylinder", "prism", "torus"})
       => kindOut.geometry = "BoxGeometry(1,1,1)"
    /\ (kindOut.type # ""
          /\ kindIn.item.type \notin {"mesh", "texture", "object"})
       => kindOut.type = "box"

\* C10 witness: both calls were made on values the switches do not list
C10_Witness ==
    /\ kindIn.type = "cone"
    /\ kindIn.item.type = "clothing"
    /\ kindOut.geometry = "BoxGeometry(1,1,1)"
    /\ kindOut.type = "box"

----------------------------------------------------------------------------
(* Properties of the main script *)

NineStates ==
    { "idle", "starting", "initializing", "logging_in", "logged_in",
      "in_world", "logging_out", "completed", "error" }

\* the state callback of fetch('/api/state') ran last, on a snapshot
SnapshotProcessed == handler = "state" /\ received.error = ""

\* C11: the polling timer a session started is cancelled when, and only
\* when, a snapshot with status completed or error that one of its own ticks
\* fetched is processed: once such a snapshot is processed the timer is not
\* active, only active timers send state and event requests, a cancelled
\* timer never becomes active again, and no rejected request and no other
\* snapshot takes a timer out of the active ones.
C11_TimerStopsOnTerminalSnapshotOnly ==
    /\ [](SnapshotProcessed /\ received.data.status \in Terminal
             => received.timer \notin pollIntervals)
    /\ [][ /\ \A t \in pollIntervals \ pollIntervals' :
                 /\ handler' = "state"
                 /\ received'.error = ""
                 /\ received'.timer = t
                 /\ received'.data.status \in Terminal
           /\ \A r \in requests' \ requests :
                 r.url \in {"/api/state", "/api/events"}
                    => r.timer \in pollIntervals
           /\ \A t \in 1..timerCount :
                 t \notin pollIntervals => t \notin pollIntervals'
         ]_vars

\* A completed snapshot that the second tick or a later one fetched was
\* processed and cancelled the timer of that tick.
C11_Witness ==
    /\ SnapshotProcessed
    /\ received.data.status = "completed"
    /\ received.timer \notin pollIntervals
    /\ received.n >= 2

\* C12: once the status on display is completed or error, nothing but the
\* start of a new session changes it, and the start of a new session puts
\* idle on display.
C12_TerminalStatusStays ==
    [][ statusIndicator.className \in Terminal
           => IF handler' = "startSimulation" /\ received'.error = ""
              THEN statusIndicator'.className = "idle"
              ELSE statusIndicator' = statusIndicator ]_vars

\* C13: the status on display changes only in the listener of the
\* status_update event.
C13_StatusChangesOnStatusEventOnly ==
    [][ statusIndicator' # statusIndicator => handler' = "status_update" ]_vars

\* C14: each of the nine states has its fixed label, the label on display is
\* that of the status applied last, and the status sequence idle, starting,
\* logging_in, logged_in, in_world, logging_out, completed is displayed as
\* Idle, Starting..., Logging in..., Logged in, In World, Logging out...,
\* Completed.
C14_LabelFollowsStatus ==
    LET label ==
            [status \in NineStates |->
                CASE status = "idle"         -> "Idle"
                  [] status = "starting"     -> "Starting..."
                  [] status = "initializing" -> "Initializing..."
                  [] status = "logging_in"   -> "Logging in..."
                  [] status = "logged_in"    -> "Logged in"
                  [] status = "in_world"     -> "In World"
                  [] status = "logging_out"  -> "Logging out..."
                  [] status = "completed"    -> "Completed"
                  [] status = "error"        -> "Error"]
        sequence ==
            << "idle", "starting", "logging_in", "logged_in", "in_world",
               "logging_out", "completed" >>
        labels ==
            << "Idle", "Starting...", "Logging in...", "Logged in",
               "In World", "Logging out...", "Completed" >>
    IN  /\ handler = "status_update"
              => statusIndicator.className = received.data.status
        /\ statusIndicator.className \in NineStates
              => statusIndicator.textContent = label[statusIndicator.className]
        /\ \A i \in 1..Len(sequence) :
              StatusIndicator(sequence[i]).textContent = labels[i]

\* The status event completed was applied last and Completed is on display.
C14_Witness ==
    /\ handler = "status_update"
    /\ received.data.status = "completed"
    /\ statusIndicator.textContent = "Completed"

WellFormedTeleport(h, rcv) ==
    /\ h = "teleport"
    /\ rcv.data.position # NoPosition
    /\ Len(rcv.data.position) = 3

\* C16: a teleport event {region r, position (a, b, c)} puts r on the region
\* display and a, b, c on the position display, the avatar at (a, c, b), the
\* marker at a/256 across and 1 - b/256 down, and appends one log line.
C16_TeleportApplied ==
    [][ WellFormedTeleport(handler', received')
           => LET r == received'.data.region
                  a == received'.data.position[1]
                  b == received'.data.position[2]
                  c == received'.data.position[3]
              IN  /\ regionName' = r
                  /\ regionPosition' = <<a, b, c>>
                  /\ avatarPosition' = Vec(a, c, b)
                  /\ 256 * avatarMarker'.left = a * (Percent * MapSpan)
                  /\ 256 * avatarMarker'.top = (256 - b) * (Percent * MapSpan)
                  /\ Len(systemLog') = Len(systemLog) + 1
                  /\ SubSeq(systemLog', 1, Len(systemLog)) = systemLog
                  /\ systemLog'[Len(systemLog')].args = <<r, <<a, b, c>> >>
      ]_vars

\* The event {Sandbox, (128, 64, 22)} was processed: the avatar stands at
\* (128, 22, 64) and the marker at one half across, three quarters down.
C16_Witness ==
    /\ WellFormedTeleport(handler, received)
    /\ received.data = [region |-> "Sandbox", position |-> <<128, 64, 22>>]
    /\ regionName = "Sandbox"
    /\ avatarPosition = Vec(128, 22, 64)
    /\ avatarMarker = [left |-> 12800, top |-> 19200]
    /\ Len(systemLog) = 1

\* C17: a teleport event applied a second time leaves the region display,
\* the position display, the marker and the avatar as the first application
\* left them, and appends one more log line, equal to the first.
C17_TeleportIdempotent ==
    [][ /\ handler = "teleport"
        /\ received.error = ""
        /\ handler' = "teleport"
        /\ received'.data = received.data
        => /\ regionName' = regionName
           /\ regionPosition' = regionPosition
           /\ avatarMarker' = avatarMarker
           /\ avatarPosition' = avatarPosition
           /\ Len(systemLog') = Len(systemLog) + 1
           /\ systemLog'[Len(systemLog')] = systemLog[Len(systemLog)]
      ]_vars

\* The same teleport event was delivered twice in a row: the log ends with
\* its two lines and the displays show it.
C17_Witness ==
    /\ handler = "teleport"
    /\ received.error = ""
    /\ Len(systemLog) >= 2
    /\ systemLog[Len(systemLog)] = systemLog[Len(systemLog) - 1]
    /\ systemLog[Len(systemLog)].args =
          <<received.data.region, received.data.position>>
    /\ regionName = received.data.region
    /\ avatarPosition = ScenePosition(received.data.position)

\* C18: after a snapshot is processed the login status, the user name, the
\* user id, the region and the position on display are those of that
\* snapshot: what the snapshot lacks shows the display's empty value, never
\* the value of an earlier snapshot.
C18_SummaryOfSnapshotAlone ==
    SnapshotProcessed
       => LET data == received.data
              loggedIn == data.logged_in /\ data.user # NoUser
          IN  /\ loginStatus = IF loggedIn THEN "Logged in"
                               ELSE IF data.status = "completed"
                               THEN "Logged out" ELSE "Not logged in"
              /\ userName = IF loggedIn THEN data.user[1].name ELSE ""
              /\ userId = IF loggedIn THEN data.user[1].id ELSE ""
              /\ regionName = IF data.current_region # NoRegion
                              THEN data.current_region ELSE "Not connected"
              /\ regionPosition = IF data.position # NoPosition
                                  THEN data.position ELSE <<0, 0, 0>>

\* C19: the events handed to processEvent are in the order the server
\* produced them and none is handed over twice.
C19_EventsOnceInOrder ==
    \A i, j \in 1..Len(applied) : i < j => applied[i] < applied[j]

\* C20: a teleport event whose position is missing or has not three
\* components raises no error, leaves the position display, the marker and
\* the avatar as they were, and still sets the region display and appends
\* its log line.
C20_MissingPositionNoUpdate ==
    [][ /\ handler' = "teleport"
        /\ ~WellFormedTeleport(handler', received')
        => /\ received'.error = ""
           /\ regionPosition' = regionPosition
           /\ avatarMarker' = avatarMarker
           /\ avatarPosition' = avatarPosition
           /\ regionName' = received'.data.region
           /\ Len(systemLog') = Len(systemLog) + 1
      ]_vars

\* C21: every transport failure of a start, login, logout or polling
\* request sets the displayed status to error and appends one log line, and
\* stops no polling timer.
C21_TransportFailureRecovered ==
    [][ /\ handler' \in {"start", "login", "logout", "state", "events"}
        /\ received'.error = "rejected"
        => /\ statusIndicator' = StatusIndicator("error")
           /\ Len(systemLog') = Len(systemLog) + 1
           /\ pollIntervals' = pollIntervals
      ]_vars

\* C22: a start, login or logout response whose success flag is false ends
\* as a delivery error of that request does: status error and exactly one
\* log line, no polling timer and no movement loop started, the login
\* summary not set to logged in or logged out.
C22_NonSuccessAsDeliveryError ==
    [][ /\ handler' \in {"start", "login", "logout"}
        /\ received'.error = ""
        /\ ~received'.data.success
        => /\ statusIndicator' = StatusIndicator("error")
           /\ Len(systemLog') = Len(systemLog) + 1
           /\ pollIntervals' = pollIntervals
           /\ movementLoops' = movementLoops
           /\ loginStatus' = loginStatus
      ]_vars

----------------------------------------------------------------------------
(* Properties of the animation frames and of the 3D view *)

Recognized(a) ==
    [a EXCEPT !.bodyShape = IF @ \in {"athletic", "slim", "heavy"}
                            THEN @ ELSE "athletic",
              !.hairStyle = IF @ \in {"short", "ponytail", "long"}
                            THEN @ ELSE "short",
              !.outfitStyle = IF @ \in {"casual", "formal", "fantasy"}
                              THEN @ ELSE "casual"]

\* C24: after initialization and after any updateAppearance and setPosition
\* calls the scene holds exactly one avatar root, the group AvatarManager
\* refers to; each updateAppearance takes the previous root out of the scene
\* and attaches a group that was not there before, built in full from the
\* merged settings.
C24_ExactlyOneAvatarRoot ==
    /\ [](/\ avatar # Null
          /\ sceneAvatars = {avatar}
          /\ avatarHeap[avatar].children = CreateAvatar(appearance))
    /\ [][ handler' = "updateAppearance"
           => /\ avatar' \notin 1..avatarCount
              /\ avatar \notin sceneAvatars'
              /\ sceneAvatars' = {avatar'}
              /\ Len(avatarHeap'[avatar'].children) = 14
         ]_vars

C24_Witness ==
    /\ handler = "setPosition"
    /\ avatarCount = 3
    /\ sceneAvatars = {3}
    /\ avatarPosition = Vec(128, 22, 64)

\* C25: an avatar built with an unrecognized body shape, hair style or
\* outfit style is the avatar built with athletic, short or casual in its
\* place: the same parts with the same geometry, position, rotation and
\* material.
C25_UnrecognizedAsDefault ==
    avatarHeap[avatar].children = CreateAvatar(Recognized(appearance))

C28_PressSelectsNearestRegistered ==
    [][ handler' = "onMouseDown"
        => LET d(i) == pointer'.mesh[smObjects[i]]
               met  == {i \in 1..Len(smObjects) : d(i) # Miss}
           IN  IF met = {}
               THEN selectedObject' = Null
               ELSE \E i \in met :
                       /\ selectedObject' = smObjects[i]
                       /\ \A j \in met :
                             d(i) < d(j) \/ (d(i) = d(j) /\ i <= j)
      ]_vars

C28_Witness ==
    /\ handler = "onMouseDown"
    /\ Len(smObjects) = 2
    /\ pointer.mesh[smObjects[1]] = 2
    /\ pointer.mesh[smObjects[2]] = 2
    /\ pointer.scenery = 1
    /\ selectedObject = smObjects[1]

\* C27: from initialization on exactly one render callback is pending; a
\* frame renders once and leaves exactly one callback pending, and no other
\* handler changes the number of pending callbacks.
C27_OneRenderCallbackPending ==
    /\ [](renderPending = 1)
    /\ [][ IF frames' = frames + 1
           THEN rendered' = 1 /\ renderPending' = 1
           ELSE renderPending' = renderPending
         ]_vars

C27_Witness ==
    /\ handler = "frame"
    /\ frames = MaxFrames
    /\ rendered = 1
    /\ renderPending = 1
    /\ Len(smObjects) = 1
    /\ Len(objects) = 1
    /\ pollIntervals # {}
    /\ regionName = "Sandbox"

C30_NodeAndRecordRemovedTogether ==
    /\ []({objects[i].id : i \in 1..Len(objects)}
             = {heap[n].userData.id : n \in sceneChildren})
    /\ [][ handler' = "deleteSelectedObject" /\ selectedObject # Null
           => LET node == selectedObject
                  id   == heap[node].userData.id
              IN  /\ node \notin sceneChildren'
                  /\ sceneChildren' = sceneChildren \ {node}
                  /\ \A i \in 1..Len(objects') : objects'[i].id # id
                  /\ Len(objects') = Len(objects) - 1
         ]_vars

C30_Witness ==
    /\ handler = "deleteSelectedObject"
    /\ Len(systemLog) > 0 /\ Deleted(LastLogged)
    /\ Len(objects) = 1
    /\ Cardinality(sceneChildren) = 1
    /\ heap[smObjects[1]].userData.id = objects[1].id
    /\ objects[1].id = 1

----------------------------------------------------------------------------
(* Properties of the event queue, the avatar and the session as a whole *)

\* the login and logout events of a batch, in batch order
SessionEvents(batch) ==
    SelectSeq(batch, LAMBDA q : q.event.type \in {"login", "logout"})

\* the log lines of the login and logout events of a batch
SessionLines(batch) ==
    [i \in 1..Len(SessionEvents(batch)) |->
        IF SessionEvents(batch)[i].event.type = "login"
        THEN Line("Login successful", <<>>, "info")
        ELSE Line("Logged out", <<>>, "info")]

\* the callback of an events response that was given the batch of request r
EventsProcessed(r) ==
    /\ r.url = "/api/events"
    /\ requests' = requests \ {r}
    /\ handler' = "events"
    /\ received'.error = ""

\* C31: a batch of chat, teleport, login and logout events fetched from the
\* queue leaves the region, the position, the marker, the avatar and the chat
\* transcript as they were; its chat and teleport events change nothing at
\* all, and each login or logout event sets the login status text and
\* appends exactly one log line.
C31_PushedEventsNoOpInQueue ==
    [][ \A r \in requests :
          EventsProcessed(r) =>
             LET session == SessionEvents(r.batch)
             IN  /\ UNCHANGED <<regionName, regionPosition, avatarMarker,
                                avatarPosition, chatMessages>>
                 /\ systemLog' = systemLog \o SessionLines(r.batch)
                 /\ loginStatus' =
                       IF session = <<>> THEN loginStatus
                       ELSE IF session[Len(session)].event.type = "login"
                       THEN "Logged in" ELSE "Logged out"
                 /\ session = <<>> =>
                       UNCHANGED <<loginButton, logoutButton>>
      ]_vars

C31_Witness ==
    /\ handler = "events"
    /\ Len(applied) = 2
    /\ Len(chatMessages) = 1
    /\ regionName = "Welcome"
    /\ avatarPosition = ScenePosition(<<200, 30, 5>>)
    /\ Len(systemLog) = 2
    /\ systemLog[1].args # <<>>
    /\ systemLog[2] = Line("Login successful", <<>>, "info")
    /\ loginStatus = "Logged in"

\* C32: updateAppearance gives every attribute its argument carries the
\* argument's value and leaves every other attribute as it was, and the
\* avatar in the scene afterwards is the one built from the merged settings.
C32_UpdateMerges ==
    [][ handler' = "updateAppearance" =>
          LET update == received'.data
          IN  /\ \A f \in DOMAIN appearance :
                    appearance'[f] = IF update[f] # <<>>
                                     THEN update[f][1] ELSE appearance[f]
              /\ sceneAvatars' = {avatar'}
              /\ avatarHeap'[avatar'].children = CreateAvatar(appearance')
      ]_vars

C32_Witness ==
    /\ handler = "updateAppearance"
    /\ received.data.bodyShape = <<>>
    /\ received.data.outfitPrimaryColor = << <<10, 11, 12, 13>> >>
    /\ appearance.bodyShape = "slim"
    /\ appearance.height = 15000
    /\ appearance.outfitStyle = "casual"
    /\ appearance.outfitPrimaryColor = <<10, 11, 12, 13>>
    /\ avatarHeap[avatar].children = CreateAvatar(appearance)

\* C33: at most one polling timer is active, and the start button is
\* disabled whenever a polling timer is active.
C33_OneTimerStartDisabled ==
    /\ Cardinality(pollIntervals) <= 1
    /\ pollIntervals # {} => startButton.disabled

C35_NewestSnapshotWins ==
    [][ /\ SnapshotProcessed
        /\ received.data.status \in Terminal
        /\ handler' = "state"
        /\ received'.error = ""
        /\ received'.timer = received.timer
        /\ received'.n < received.n
        /\ pollIntervals' = {}
        /\ ~\E r \in requests' : r.url = "/api/state"
        => UNCHANGED <<loginStatus, userName, userId, regionName,
                       regionPosition>>
      ]_vars

\* C36: updateAppearance leaves the avatar where setPosition put it.
C36_AppearanceKeepsPosition ==
    [][ handler' = "updateAppearance" => avatarPosition' = avatarPosition
      ]_vars

\* the position display, the marker and the avatar denote one position under
\* scene (x, y, z) = wire (p0, p2, p1) and marker = (p0/256, 1 - p1/256)
SamePlace(display, marker, position) ==
    /\ position = ScenePosition(display)
    /\ marker = MiniMapMarker(display[1], display[2])

\* C37: after a teleport with a position of three components, after a
\* snapshot with a region and a position, after a frame that moved the avatar
\* and after the display reset of a start, the position display, the minimap
\* marker and the avatar denote the same position.
C37_OnePlaceOnDisplay ==
    [][ \/ WellFormedTeleport(handler', received')
        \/ /\ handler' = "state"
           /\ received'.error = ""
           /\ received'.data.current_region # NoRegion
           /\ received'.data.position # NoPosition
        \/ /\ handler' = "frame"
           /\ avatarPosition' # avatarPosition
        \/ /\ handler' = "startSimulation"
           /\ received'.error = ""
        => SamePlace(regionPosition', avatarMarker', avatarPosition')
      ]_vars

\* C38: a click on the start button resets the display, disables the button,
\* puts starting on display and sends the start request; a start request
\* that succeeds starts a polling timer; and the start button is enabled
\* again only by a terminal snapshot or by a start request that fails.
C38_StartRunsToCompletion ==
    [][ /\ handler' = "startSimulation" =>
              /\ received'.error = ""
              /\ systemLog' = <<>>
              /\ chatMessages' = <<>>
              /\ regionName' = "Not connected"
              /\ startButton'.disabled
              /\ statusIndicator' = StatusIndicator("starting")
              /\ \E r \in requests' \ requests : r.url = "/api/start"
        /\ handler' = "start" /\ received'.error = "" =>
              \E t \in pollIntervals' : t \notin pollIntervals
        /\ startButton.disabled /\ ~startButton'.disabled =>
              \/ handler' = "state" /\ received'.error = ""
                                    /\ received'.data.status \in Terminal
              \/ handler' = "start" /\ received'.error = "rejected"
      ]_vars

\* the well-formed events of a batch, in batch order
WellFormed(batch) ==
    SelectSeq(batch, LAMBDA q : ~Throws(q.event))

\* C39: when a fetched batch holds a malformed event, every well-formed
\* event of the batch is applied all the same, in batch order, and no
\* polling timer stops.
C39_MalformedEventSkipped ==
    [][ \A r \in requests :
          /\ r.url = "/api/events"
          /\ requests' = requests \ {r}
          /\ handler' = "events"
          /\ received'.error # "rejected"
          => LET d == ProcessEvents(WellFormed(r.batch),
                         [loginStatus |-> loginStatus, buttons |-> Buttons,
                          log |-> systemLog])
             IN  /\ systemLog' = d.log
                 /\ loginStatus' = d.loginStatus
                 /\ pollIntervals' = pollIntervals
      ]_vars

====
